---- MODULE Spec2Model ----
(***************************************************************************)
(* A model of the client-side router of the car-records single-page        *)
(* application: src/utils/router.js (the version with companion scripts,   *)
(* lines 189-408), src/utils/dom.js and the page handlers of src/main.js.  *)
(*                                                                         *)
(* Representation.  A JavaScript string is a sequence of tokens (TLA+      *)
(* strings); the empty string is << >>.  Property names and query keys are *)
(* single TLA+ strings.  A JavaScript value is a tagged record, so that    *)
(* values of different types can be compared.                              *)
(***************************************************************************)
EXTENDS Integers, Sequences, FiniteSets, TLC

(***************************************************************************)
(* JavaScript values                                                       *)
(***************************************************************************)
Null == [t |-> "null"]
Undefined == [t |-> "undefined"]
Str(s) == [t |-> "str", s |-> s]
Num(n) == [t |-> "num", n |-> n]
Bool(b) == [t |-> "bool", b |-> b]
\* an array: the sequence of its elements
Arr(a) == [t |-> "arr", a |-> a]
\* an object: the sequence of its [name, value] entries in insertion order,
\* names distinct
Obj(o) == [t |-> "obj", o |-> o]

Pair(k, v) == [name |-> k, value |-> v]

Names(list) == {list[i].name : i \in 1..Len(list)}

\* JavaScript truthiness: if (v), !v, v || w, v ? a : b
Truthy(v) ==
    CASE v.t = "str" -> v.s # << >>
      [] v.t = "num" -> v.n # 0
      [] v.t = "bool" -> v.b
      [] v.t = "null" -> FALSE
      [] v.t = "undefined" -> FALSE
      [] OTHER -> TRUE

\* v == null  (loose equality: null and undefined only)
IsNullish(v) == v.t \in {"null", "undefined"}

\* decimal digits of a non-negative integer, as one token
RECURSIVE Digits(_)
Digits(n) ==
    LET d == n % 10
        c == CASE d = 0 -> "0" [] d = 1 -> "1" [] d = 2 -> "2" [] d = 3 -> "3"
               [] d = 4 -> "4" [] d = 5 -> "5" [] d = 6 -> "6" [] d = 7 -> "7"
               [] d = 8 -> "8" [] OTHER -> "9"
    IN IF n < 10 THEN c ELSE Digits(n \div 10) \o c

\* String(v): the coercion URLSearchParams.set and escapeHtml apply
RECURSIVE JsString(_)
JsString(v) ==
    CASE v.t = "str" -> v.s
      [] v.t = "num" -> <<Digits(v.n)>>
      [] v.t = "bool" -> IF v.b THEN <<"true">> ELSE <<"false">>
      [] v.t = "null" -> <<"null">>
      [] v.t = "undefined" -> <<"undefined">>
      [] v.t = "arr" ->
           LET RECURSIVE Join(_)
               Join(i) ==
                   IF i > Len(v.a) THEN << >>
                   ELSE (IF i > 1 THEN <<",">> ELSE << >>)
                        \o (IF IsNullish(v.a[i]) THEN << >> ELSE JsString(v.a[i]))
                        \o Join(i + 1)
           IN Join(1)
      [] OTHER -> <<"[object Object]">>

(***************************************************************************)
(* URLSearchParams: an ordered list of name-value pairs                    *)
(***************************************************************************)
\* URLSearchParams.delete(name): removes every pair with that name
SPDelete(list, name) == SelectSeq(list, LAMBDA e : e.name # name)

\* URLSearchParams.set(name, value): the first pair with that name takes the
\* value and the others are removed; with no such pair, one is appended
SPSet(list, name, value) ==
    IF name \in Names(list)
    THEN LET first == CHOOSE i \in 1..Len(list) :
                          /\ list[i].name = name
                          /\ \A j \in 1..(i - 1) : list[j].name # name
             RECURSIVE Build(_)
             Build(i) ==
                 IF i > Len(list) THEN << >>
                 ELSE IF i = first THEN <<Pair(name, value)>> \o Build(i + 1)
                 ELSE IF list[i].name = name THEN Build(i + 1)
                 ELSE <<list[i]>> \o Build(i + 1)
         IN Build(1)
    ELSE Append(list, Pair(name, value))

\* URLSearchParams.get(name): the value of the first pair with that name
SPHas(list, name) == name \in Names(list)

\* the number of pairs with that name
SPCount(list, name) == Cardinality({i \in 1..Len(list) : list[i].name = name})

\* the value of the first pair with that name
SPGet(list, name) ==
    list[CHOOSE i \in 1..Len(list) :
            /\ list[i].name = name
            /\ \A j \in 1..(i - 1) : list[j].name # name].value

(***************************************************************************)
(* navigate: the new query string                                          *)
(***************************************************************************)
\* a params object: a sequence of [name, value] entries in insertion order,
\* value a JavaScript value
ParamKeys(params) == {params[i].name : i \in 1..Len(params)}

\* an allow-list without the implicit 'page'
AllowedKeysOfParamsOnly(params) == ParamKeys(params)

\* new Set(['page', ...Object.keys(params)])
AllowedKeys(params) == {"page"} \cup ParamKeys(params)

\* a loop that drops the keys params does not name whatever the option says
RECURSIVE DropLoopIgnoringOption(_, _, _, _)
DropLoopIgnoringOption(list, i, allowed, preserve) ==
    IF i > Len(list) THEN list
    ELSE LET key == list[i].name
         IN IF key \notin allowed
            THEN DropLoopIgnoringOption(SPDelete(list, key), i + 1, allowed, preserve)
            ELSE DropLoopIgnoringOption(list, i + 1, allowed, preserve)

\* for (const key of url.searchParams.keys()) { if (...) delete(key) }
\* The iterator is live: it holds an index into the list it iterates, and
\* the index advances by one after every key, also after a delete.
RECURSIVE DropLoop(_, _, _, _)
DropLoop(list, i, allowed, preserve) ==
    IF i > Len(list) THEN list
    ELSE LET key == list[i].name
         IN IF key \notin allowed /\ ~preserve
            THEN DropLoop(SPDelete(list, key), i + 1, allowed, preserve)
            ELSE DropLoop(list, i + 1, allowed, preserve)

\* a forEach that added the value with searchParams.append instead of set
RECURSIVE ApplyParamsAppending(_, _, _)
ApplyParamsAppending(list, params, i) ==
    IF i > Len(params) THEN list
    ELSE LET e == params[i]
         IN IF IsNullish(e.value)
            THEN ApplyParamsAppending(SPDelete(list, e.name), params, i + 1)
            ELSE ApplyParamsAppending(Append(list, Pair(e.name, JsString(e.value))),
                                      params, i + 1)

\* Object.entries(params).forEach(([key, value]) => ...)
RECURSIVE ApplyParams(_, _, _)
ApplyParams(list, params, i) ==
    IF i > Len(params) THEN list
    ELSE LET e == params[i]
         IN IF IsNullish(e.value)
            THEN ApplyParams(SPDelete(list, e.name), params, i + 1)
            ELSE ApplyParams(SPSet(list, e.name, JsString(e.value)), params, i + 1)

\* the query string navigate(params, options) pushes
NavigateUrl(search, params, preserve) ==
    ApplyParams(DropLoop(search, 1, AllowedKeys(params), preserve), params, 1)

\* getParams: result[key] = value for every pair in order, so the object has
\* one entry per name, in order of first occurrence, holding the value of the
\* last pair of that name
GetParams(search) ==
    LET RECURSIVE From(_, _)
        From(i, result) ==
            IF i > Len(search) THEN result
            ELSE LET e == search[i]
                     next == IF e.name \in Names(result)
                             THEN [j \in 1..Len(result) |->
                                      IF result[j].name = e.name
                                      THEN Pair(e.name, Str(e.value)) ELSE result[j]]
                             ELSE Append(result, Pair(e.name, Str(e.value)))
                 IN From(i + 1, next)
    IN From(1, << >>)

\* params[key] on an object given by its entries
HasKey(entries, key) == key \in Names(entries)

EntryValue(entries, key) ==
    IF HasKey(entries, key)
    THEN entries[CHOOSE i \in 1..Len(entries) : entries[i].name = key].value
    ELSE Undefined

(***************************************************************************)
(* Template engine (src/utils/dom.js)                                      *)
(*                                                                         *)
(* A template is a token sequence.  The syntax tokens are "{{", "}}",      *)
(* "#each", "/each", "#if", "/if"; " " is white space; the five characters *)
(* escapeHtml replaces are tokens of their own; a word token is a run of   *)
(* word characters (\w+); every other token is plain text.                 *)
(***************************************************************************)
IsWord(tok) ==
    tok \in {"page", "id", "sort", "q", "cars", "brand", "items", "v", "missing", "secret",
             "home", "car", "create", "asc", "a", "b", "x", "5", "7", "Toyota", "Honda",
             "h1", "h2", "p", "li"}

\* one token of escapeHtml's output: & first, then <, >, ", '
EscapeToken(tok) ==
    CASE tok = "&" -> "&amp;"
      [] tok = "<" -> "&lt;"
      [] tok = ">" -> "&gt;"
      [] tok = "\"" -> "&quot;"
      [] tok = "'" -> "&#039;"
      [] OTHER -> tok

\* one token of an escapeHtml that replaced the angle brackets only
EscapeAngleToken(tok) ==
    CASE tok = "<" -> "&lt;"
      [] tok = ">" -> "&gt;"
      [] OTHER -> tok

escapeHtmlAnglesOnly(unsafe) ==
    LET str == JsString(unsafe) IN [i \in 1..Len(str) |-> EscapeAngleToken(str[i])]

escapeHtml(unsafe) ==
    LET str == JsString(unsafe) IN [i \in 1..Len(str) |-> EscapeToken(str[i])]

\* the outcome of a call that may throw: a string, or a thrown TypeError
Returned(s) == [thrown |-> FALSE, s |-> s]
Thrown == [thrown |-> TRUE, s |-> << >>]

\* params[key]: a property read throws on null and undefined, and a
\* primitive or an array has none of the template's keys
CanRead(params) == ~IsNullish(params)

Prop(params, key) ==
    IF params.t = "obj" THEN EntryValue(params.o, key) ELSE Undefined

\* \s* from position i: the first position that is not white space
RECURSIVE SkipWs(_, _)
SkipWs(s, i) == IF i <= Len(s) /\ s[i] = " " THEN SkipWs(s, i + 1) ELSE i

At(s, i, tok) == i >= 1 /\ i <= Len(s) /\ s[i] = tok

\* {{#each\s+(\w+)}} or {{#if\s+(\w+)}} at position i: the position of the key,
\* 0 when there is no match
OpenAt(s, i, tag) ==
    LET w == SkipWs(s, i + 2)
    IN IF /\ At(s, i, "{{") /\ At(s, i + 1, tag)
          /\ w > i + 2 /\ w <= Len(s) /\ IsWord(s[w]) /\ At(s, w + 1, "}}")
       THEN w ELSE 0

\* ([\s\S]*?){{/each}}: the first closing tag at or after position j, 0 when none
RECURSIVE CloseFrom(_, _, _)
CloseFrom(s, j, tag) ==
    IF j + 2 > Len(s) THEN 0
    ELSE IF s[j] = "{{" /\ s[j + 1] = tag /\ s[j + 2] = "}}" THEN j
    ELSE CloseFrom(s, j + 1, tag)

\* {{\s*(\w+)\s*}} at position i: the position of the key, 0 when no match
ScalarAt(s, i) ==
    LET w == SkipWs(s, i + 1)
        e == SkipWs(s, w + 1)
    IN IF At(s, i, "{{") /\ w <= Len(s) /\ IsWord(s[w]) /\ At(s, e, "}}")
       THEN w ELSE 0

\* a.b when neither threw
Cat(a, b) == IF a.thrown \/ b.thrown THEN Thrown ELSE Returned(a.s \o b.s)

RECURSIVE inject(_, _)
RECURSIVE EachPass(_, _, _)
RECURSIVE EachItems(_, _, _)

\* arr.map(item => inject(content, item)).join(): the default separator
RECURSIVE EachItemsCommaJoined(_, _, _)
EachItemsCommaJoined(content, arr, n) ==
    IF n > Len(arr) THEN Returned(<< >>)
    ELSE Cat(Cat(inject(content, arr[n]),
                 Returned(IF n < Len(arr) THEN <<",">> ELSE << >>)),
             EachItemsCommaJoined(content, arr, n + 1))

\* arr.map(item => inject(content, item)).join('')
EachItems(content, arr, n) ==
    IF n > Len(arr) THEN Returned(<< >>)
    ELSE Cat(inject(content, arr[n]), EachItems(content, arr, n + 1))

\* the replacement of one iteration block
EachBlock(content, params, key) ==
    IF ~CanRead(params) THEN Thrown
    ELSE LET arr == Prop(params, key)
         IN IF arr.t # "arr" THEN Returned(<< >>) ELSE EachItems(content, arr.a, 1)

\* html.replace(/{{#each\s+(\w+)}}([\s\S]*?){{\/each}}/g, ...) from position i
EachPass(html, params, i) ==
    IF i > Len(html) THEN Returned(<< >>)
    ELSE LET w == OpenAt(html, i, "#each")
             c == IF w = 0 THEN 0 ELSE CloseFrom(html, w + 2, "/each")
         IN IF c = 0
            THEN Cat(Returned(<<html[i]>>), EachPass(html, params, i + 1))
            ELSE Cat(EachBlock(SubSeq(html, w + 2, c - 1), params, html[w]),
                     EachPass(html, params, c + 3))

\* a conditional block that tested the presence of the key, not its value
IfBlockOnPresence(content, params, key) ==
    IF ~CanRead(params) THEN Thrown
    ELSE IF Prop(params, key).t # "undefined" THEN Returned(content) ELSE Returned(<< >>)

\* the replacement of one conditional block
IfBlock(content, params, key) ==
    IF ~CanRead(params) THEN Thrown
    ELSE IF Truthy(Prop(params, key)) THEN Returned(content) ELSE Returned(<< >>)

\* html.replace(/{{#if\s+(\w+)}}([\s\S]*?){{\/if}}/g, ...) from position i
RECURSIVE IfPass(_, _, _)
IfPass(html, params, i) ==
    IF i > Len(html) THEN Returned(<< >>)
    ELSE LET w == OpenAt(html, i, "#if")
             c == IF w = 0 THEN 0 ELSE CloseFrom(html, w + 2, "/if")
         IN IF c = 0
            THEN Cat(Returned(<<html[i]>>), IfPass(html, params, i + 1))
            ELSE Cat(IfBlock(SubSeq(html, w + 2, c - 1), params, html[w]),
                     IfPass(html, params, c + 3))

\* the replacement of one scalar placeholder
ScalarValue(params, key) ==
    IF ~CanRead(params) THEN Thrown
    ELSE LET v == Prop(params, key)
         IN IF v.t # "undefined" THEN Returned(escapeHtml(v)) ELSE Returned(<< >>)

\* html.replace(/{{\s*(\w+)\s*}}/g, ...) from position i
RECURSIVE ScalarPass(_, _, _)
ScalarPass(html, params, i) ==
    IF i > Len(html) THEN Returned(<< >>)
    ELSE LET w == ScalarAt(html, i)
         IN IF w = 0
            THEN Cat(Returned(<<html[i]>>), ScalarPass(html, params, i + 1))
            ELSE Cat(ScalarValue(params, html[w]),
                     ScalarPass(html, params, SkipWs(html, w + 1) + 1))

\* inject(html, params = {}): iteration blocks, then conditional blocks, then
\* scalar placeholders, each pass over the output of the one before
inject(html, params) ==
    LET p == IF params.t = "undefined" THEN Obj(<< >>) ELSE params
        r1 == EachPass(html, p, 1)
        r2 == IF r1.thrown THEN Thrown ELSE IfPass(r1.s, p, 1)
    IN IF r2.thrown THEN Thrown ELSE ScalarPass(r2.s, p, 1)

\* render(root, html): root.innerHTML = html
render(html) == html

\* renderError(root, error): the escaped message in an error paragraph
renderError(error) ==
    <<"<", "p class=", "\"", "error", "\"", ">">> \o escapeHtml(Str(error))
        \o <<"<", "/p", ">">>

(***************************************************************************)
(* Bounds of the model                                                     *)
(***************************************************************************)
\* route-change resolutions started in one behaviour
MaxRes == 2
\* entries of the session history
MaxHist == 2
\* requests in one behaviour that end otherwise than the server's file or
\* answer arriving intact
MaxFaults == 1

(***************************************************************************)
(* The world the router runs in                                            *)
(***************************************************************************)
HomePage == <<"home">>
CarPage == <<"car">>
PageNames == {HomePage, CarPage}

\* the handlers src/main.js registers are "listCars" and "showCar"; "none" is
\* no handler

\* a callback given to onPage that throws before it returns
ThrowingHandler == "throws"

\* pages/<page>.html and scripts/<page>.js as the server holds them
TemplateOf(page) ==
    IF page = HomePage
    THEN <<"{{", "#each", " ", "cars", "}}", "{{", " ", "brand", " ", "}}",
           "{{", "/each", "}}">>
    ELSE <<"<", "h1", ">", "{{", " ", "brand", " ", "}}", "{{", "id", "}}">>

ScriptOf(page) == <<"script:">> \o page

NotFoundBody == <<"Cannot GET">>

\* what a fetch can end in: a network error (the promise rejects), or a
\* response with a status and a body
NetErr == [kind |-> "neterr", ok |-> FALSE, body |-> << >>]
Response(ok, body) == [kind |-> "response", ok |-> ok, body |-> body]

\* pages/<page>.html exists for every page; the other outcomes are a network
\* error, a non-success status, and a file that has been emptied
TemplateOutcomes(page) ==
    {NetErr, Response(FALSE, NotFoundBody), Response(TRUE, TemplateOf(page)),
     Response(TRUE, << >>)}

\* scripts/car.js exists, scripts/home.js does not
ScriptOutcomes(page) ==
    {NetErr, IF page = CarPage THEN Response(TRUE, ScriptOf(page))
                              ELSE Response(FALSE, NotFoundBody)}


\* the JSON the remote API answers a handler's request with
CarJson == Obj(<<Pair("brand", Str(<<"Toyota">>))>>)
ApiJson(handler) == IF handler = "listCars" THEN Arr(<<CarJson>>) ELSE CarJson

\* the calls of navigate the page makes
NavChoices ==
    {[params |-> <<Pair("page", Str(CarPage)), Pair("id", Num(5))>>, preserve |-> FALSE],
     [params |-> <<Pair("page", Str(HomePage))>>, preserve |-> FALSE]}

(***************************************************************************)
(* State                                                                   *)
(***************************************************************************)
VARIABLES
    search,             \* window.location.search as a list of pairs
    hist,               \* the session history: the query of every entry
    hidx,               \* the current entry of the session history
    patched,            \* how many wrappers patchHistoryMethods has put on pushState
    pageHandlers,       \* page name -> handler, "none" when not registered
    pageCache,          \* <<type, page>> -> text, Undefined when absent
    sessionStorage,     \* storage key -> text, Null when absent
    usePersistentCache, \* the backend switch, fixed in a behaviour
    registered,         \* page name -> the callback of the last onPage call for it
    engine,             \* a call of inject made on its own: arguments and outcome
    remote,             \* an operation on the remote API: the request and what the user is shown
    root,               \* innerHTML of the output target
    res,                \* the route-change resolutions, by number
    nres,               \* how many resolutions have started
    micro,              \* resolutions whose continuation is a queued microtask
    faults,             \* how many requests have ended in a fault
    lastNav             \* the last call of navigate, while its URL is the current one

Res == 1..MaxRes

vars == <<search, hist, hidx, patched, pageHandlers, pageCache, sessionStorage,
          usePersistentCache, remote, registered, engine, root, res, nres, micro, faults,
          lastNav>>

\* a request ends in outcome o, where nominal is its outcome without a fault
Outcome(o, nominal) ==
    LET fault == o.kind # nominal.kind \/ o # nominal
    IN /\ fault => faults < MaxFaults
       /\ faults' = IF fault THEN faults + 1 ELSE faults

CacheTypes == {"html", "js"}
CacheKeys == CacheTypes \X PageNames

\* a key without the type: `RouterCache:${page}`, which is the key of the
\* template entry whatever the type
cacheKeyWithoutType(page, type) == <<"RouterCache", "html", page>>

\* cacheKey(page, type): RouterCache:<type>:<page>
cacheKey(page, type) == <<"RouterCache", type, page>>
\* keys of the session store that other code of the page has written: two
\* that do not start with `RouterCache:', and one that does
ForeignKeys == {<<"theme">>, <<"RouterCacheBackup">>, <<"RouterCache", "draft">>}
StorageKeys == {cacheKey(k[2], k[1]) : k \in CacheKeys} \cup ForeignKeys

\* a prefix test without the colon: k.startsWith('RouterCache')
HasCacheWord(k) == k[1] \in {"RouterCache", "RouterCacheBackup"}

\* k.startsWith('RouterCache:')
HasCachePrefix(k) == k[1] = "RouterCache"

\* getCachedPage(page, type)
getCachedPage(page, type) ==
    IF usePersistentCache /\ Truthy(sessionStorage[cacheKey(page, type)])
    THEN sessionStorage[cacheKey(page, type)]
    ELSE IF Truthy(pageCache[<<type, page>>]) THEN pageCache[<<type, page>>] ELSE Null

\* setCachedPage(page, content, type): the two stores after the call
StorageAfterSet(page, content, type) ==
    IF usePersistentCache
    THEN [sessionStorage EXCEPT ![cacheKey(page, type)] = Str(JsString(content))]
    ELSE sessionStorage

CacheAfterSet(page, content, type) ==
    IF usePersistentCache
    THEN pageCache
    ELSE [pageCache EXCEPT ![<<type, page>>] = content]

\* no call of navigate has made the current URL
NoNav == [called |-> FALSE, params |-> << >>, preserve |-> FALSE, from |-> << >>]

\* an unused resolution slot
Idle ==
    [pc |-> "idle", url |-> << >>, params |-> << >>, page |-> << >>,
     handler |-> "none", html |-> Null, jsCode |-> Null,
     rawTpl |-> Undefined, tplReq |-> 0, jsReq |-> 0,
     tplSrc |-> << >>, jsSrc |-> << >>,
     tplOut |-> "none", jsOut |-> "none", log |-> << >>]

\* what a resolution has done so far is kept in its log, in order:
\*   "call"     the router called the page handler with text and a closure
\*   "write"    innerHTML of the output target was set to text
\*   "hydrate"  the hydrate closure hyd ("real" or "noop") was invoked
\*   "eval"     the script text was executed
\* by the router's code or by the handler's
Ev(e, by, text, hyd) == [e |-> e, by |-> by, text |-> text, hyd |-> hyd]

Events(rec, e) == SelectSeq(rec.log, LAMBDA x : x.e = e)
EventsBy(rec, e, by) == SelectSeq(rec.log, LAMBDA x : x.e = e /\ x.by = by)

\* the entry a lookup of (page, type) reads, before its `|| null'
RawEntry(page, type) ==
    IF usePersistentCache /\ sessionStorage[cacheKey(page, type)] # Null
    THEN sessionStorage[cacheKey(page, type)]
    ELSE pageCache[<<type, page>>]

\* `<h2>Error loading page: ${page}</h2>`
ErrorHtml(page) ==
    <<"<", "h2", ">", "Error loading page: ">> \o page \o <<"<", "/h2", ">">>

(***************************************************************************)
(* handleRouteChange and loadPageScript, step by step.  A resolution is    *)
(* suspended at its fetches (pc "awaitTpl", "awaitJs"), at the await of    *)
(* loadPageScript's promise (pc "micro": its continuation is a microtask), *)
(* and, inside a handler of src/main.js, at the handler's API request      *)
(* (pc "awaitApi").                                                        *)
(***************************************************************************)
\* `pages/${page}.html` and `scripts/${page}.js`
TemplateSource(page) == <<"pages/">> \o page \o <<".html">>
ScriptSource(page) == <<"scripts/">> \o page \o <<".js">>

\* a loadPageScript whose promise never settles when the script is cached
LoadPageScriptNeverSettling(rec, cached) ==
    IF Truthy(cached)
    THEN [rec EXCEPT !.jsCode = cached, !.pc = "hung"]
    ELSE [rec EXCEPT !.jsCode = cached, !.pc = "awaitJs", !.jsReq = @ + 1,
                     !.jsSrc = ScriptSource(rec.page)]

\* loadPageScript up to its first await: the cached script, or a request
LoadPageScript(rec, cached) ==
    IF Truthy(cached)
    THEN [rec EXCEPT !.jsCode = cached, !.pc = "micro"]
    ELSE [rec EXCEPT !.jsCode = cached, !.pc = "awaitJs", !.jsReq = @ + 1,
                     !.jsSrc = ScriptSource(rec.page)]

\* a handleRouteChange that read the page with searchParams.get('page'), the
\* first pair of that name, instead of the object getParams builds
StartRecordFirstPage(url) ==
    LET params == GetParams(url)
        pv == IF SPHas(url, "page") THEN Str(SPGet(url, "page")) ELSE Undefined
        page == IF Truthy(pv) THEN pv.s ELSE HomePage
        handler == IF page \in DOMAIN pageHandlers THEN pageHandlers[page] ELSE "none"
        html == getCachedPage(page, "html")
        rec == [Idle EXCEPT !.url = url, !.params = params, !.page = page,
                            !.handler = handler, !.html = html,
                            !.rawTpl = RawEntry(page, "html")]
    IN IF ~Truthy(html)
       THEN [rec EXCEPT !.pc = "awaitTpl", !.tplReq = @ + 1,
                        !.tplSrc = TemplateSource(page)]
       ELSE LoadPageScript(rec, getCachedPage(page, "js"))

\* handleRouteChange up to its first await, with url the current query
StartRecord(url) ==
    LET params == GetParams(url)
        pv == EntryValue(params, "page")
        page == IF Truthy(pv) THEN pv.s ELSE HomePage
        handler == IF page \in DOMAIN pageHandlers THEN pageHandlers[page] ELSE "none"
        html == getCachedPage(page, "html")
        rec == [Idle EXCEPT !.url = url, !.params = params, !.page = page,
                            !.handler = handler, !.html = html,
                            !.rawTpl = RawEntry(page, "html")]
    IN IF ~Truthy(html)
       THEN [rec EXCEPT !.pc = "awaitTpl", !.tplReq = @ + 1,
                        !.tplSrc = TemplateSource(page)]
       ELSE LoadPageScript(rec, getCachedPage(page, "js"))

\* a wrapper of pushState that ran handleRouteChange before the original
\* pushState would start its resolutions on the URL being left
StartResolutionsBeforePush(n, url) ==
    LET new == (nres + 1)..(nres + n)
        rec == StartRecord(search)
    IN /\ nres + n <= Cardinality(DOMAIN res)
       /\ nres' = nres + n
       /\ res' = [r \in DOMAIN res |-> IF r \in new THEN rec ELSE res[r]]
       /\ micro' = IF rec.pc = "micro"
                   THEN micro \o [i \in 1..n |-> nres + i]
                   ELSE micro

\* n calls of handleRouteChange in one synchronous run
StartResolutions(n, url) ==
    LET new == (nres + 1)..(nres + n)
        rec == StartRecord(url)
    IN /\ nres + n <= Cardinality(DOMAIN res)
       /\ nres' = nres + n
       /\ res' = [r \in DOMAIN res |-> IF r \in new THEN rec ELSE res[r]]
       /\ micro' = IF rec.pc = "micro"
                   THEN micro \o [i \in 1..n |-> nres + i]
                   ELSE micro

\* a closure that looked the script up in the cache when it is invoked
HydratedFromCache(rec, hyd, by) ==
    LET inv == [rec EXCEPT !.log = Append(@, Ev("hydrate", by, << >>, hyd))]
        code == getCachedPage(rec.page, "js")
    IN IF hyd = "real" /\ Truthy(code)
       THEN [inv EXCEPT !.log = Append(@, Ev("eval", by, code.s, "-"))]
       ELSE inv

\* a hydrate closure is invoked: the closure loadPageScript returned runs
\* eval(jsCode) when there is a script, the fallback closure does nothing
Hydrated(rec, hyd, by) ==
    LET inv == [rec EXCEPT !.log = Append(@, Ev("hydrate", by, << >>, hyd))]
    IN IF hyd = "real" /\ Truthy(rec.jsCode)
       THEN [inv EXCEPT !.log = Append(@, Ev("eval", by, rec.jsCode.s, "-"))]
       ELSE inv

\* render(root, html)
Rendered(rec, html, by) == [rec EXCEPT !.log = Append(@, Ev("write", by, render(html), "-"))]

\* a call of the handler that reads the query again when it makes the call
HandlerCalledWithCurrentQuery(rec, html, hyd) ==
    [rec EXCEPT !.log = Append(@, Ev("call", "router", html, hyd)),
                !.params = GetParams(search),
                !.pc = IF rec.handler = ThrowingHandler THEN "done" ELSE "awaitApi"]

\* a handler of src/main.js is called: it is an async function, which requests
\* the API and returns
HandlerCalled(rec, html, hyd) ==
    [rec EXCEPT !.log = Append(@, Ev("call", "router", html, hyd)),
                !.pc = IF rec.handler = ThrowingHandler THEN "done" ELSE "awaitApi"]

\* a try block that went on to invoke hydrate after the call of the handler
TryDeliverAutoHydrate(rec) ==
    IF rec.handler # "none"
    THEN Hydrated(HandlerCalled(rec, rec.html.s, "real"), "real", "router")
    ELSE LET out == inject(rec.html.s, Obj(rec.params))
         IN IF out.thrown
            THEN [rec EXCEPT !.pc = "catch"]
            ELSE Hydrated([Rendered(rec, out.s, "router") EXCEPT !.pc = "done"],
                          "real", "router")

\* a try block that invoked hydrate before it rendered
TryDeliverHydrateFirst(rec) ==
    IF rec.handler # "none"
    THEN HandlerCalled(rec, rec.html.s, "real")
    ELSE LET out == inject(rec.html.s, Obj(rec.params))
         IN IF out.thrown
            THEN [rec EXCEPT !.pc = "catch"]
            ELSE [Rendered(Hydrated(rec, "real", "router"), out.s, "router")
                      EXCEPT !.pc = "done"]

\* the try block of handleRouteChange from the handler test on
TryDeliver(rec) ==
    IF rec.handler # "none"
    THEN LET called == HandlerCalled(rec, rec.html.s, "real")
         IN IF rec.handler = ThrowingHandler THEN [called EXCEPT !.pc = "catch"]
            ELSE called
    ELSE LET out == inject(rec.html.s, Obj(rec.params))
         IN IF out.thrown
            THEN [rec EXCEPT !.pc = "catch"]
            ELSE Hydrated([Rendered(rec, out.s, "router") EXCEPT !.pc = "done"],
                          "real", "router")

\* a catch block that asks for the template once more before it gives up
CatchDeliverAfterRetry(rec) ==
    IF rec.tplReq < 2 THEN [rec EXCEPT !.pc = "awaitTpl", !.tplReq = @ + 1]
    ELSE [rec EXCEPT !.pc = "done"]

\* the catch block of handleRouteChange
CatchDeliver(rec) ==
    IF rec.handler # "none"
    THEN HandlerCalled(rec, ErrorHtml(rec.page), "noop")
    ELSE [Rendered(rec, ErrorHtml(rec.page), "router") EXCEPT !.pc = "done"]

\* the try block, and the catch block when it threw
Deliver(rec) ==
    LET t == TryDeliver(rec) IN IF t.pc = "catch" THEN CatchDeliver(t) ELSE t

\* the writes of a resolution
Writes(rec) == Events(rec, "write")

Wrote(before, after) == Len(Writes(after)) > Len(Writes(before))

LastWrite(rec) == Writes(rec)[Len(Writes(rec))].text

\* a router that let only the resolution of the current URL write
RootAfterFenced(before, after) ==
    IF Wrote(before, after) /\ after.url = search THEN LastWrite(after) ELSE root

\* the output target after a step that took a resolution from before to after
RootAfter(before, after) ==
    IF Wrote(before, after) THEN LastWrite(after) ELSE root

\* one resolution moves from res[r] to rec
Step(r, rec) ==
    /\ res' = [res EXCEPT ![r] = rec]
    /\ root' = RootAfter(res[r], rec)

(***************************************************************************)
(* Initial state: router.js has been evaluated, with nothing registered,   *)
(* nothing cached and the history methods not yet patched.                 *)
(***************************************************************************)

\* inject has not been called on its own
NoInject == [called |-> FALSE, html |-> << >>, params |-> Undefined, out |-> Returned(<< >>)]

\* no operation on the remote API has been started
NoRequest == [url |-> << >>, method |-> Undefined, body |-> Undefined]
Rejected == [kind |-> "neterr", ok |-> FALSE, status |-> 0, json |-> Undefined]
NoRemote ==
    [pc |-> "idle", op |-> "none", id |-> Undefined, sent |-> FALSE, req |-> NoRequest,
     asked |-> << >>, reply |-> Rejected, alerts |-> << >>, wrote |-> Undefined, hydrated |-> FALSE,
     navigated |-> FALSE]

\* the state after the page has loaded with query url, the cache backend
\* being the persistent one or not, call the call of inject to be made, and
\* slots the number of resolutions that are followed
InitSized(url, persistent, call, slots) ==
    /\ search = url
    /\ hist = <<search>>
    /\ hidx = 1
    /\ patched = 0
    /\ pageHandlers = [p \in PageNames |-> "none"]
    /\ pageCache = [k \in CacheKeys |-> Undefined]
    /\ sessionStorage = [k \in StorageKeys |->
                            IF k \in ForeignKeys THEN Str(<<"dark">>) ELSE Null]
    /\ usePersistentCache = persistent
    /\ registered = [p \in PageNames |-> "none"]
    /\ engine = call
    /\ remote = NoRemote
    /\ root = << >>
    /\ res = [r \in 1..slots |-> Idle]
    /\ nres = 0
    /\ micro = << >>
    /\ faults = 0
    /\ lastNav = NoNav

InitWith(url, persistent, call) == InitSized(url, persistent, call, MaxRes)

InitMode(url, persistent) == InitWith(url, persistent, NoInject)

\* const usePersistentCache = false
InitAt(url) == InitMode(url, FALSE)

InitRouter == InitAt(<< >>)

\* a task of the event loop starts only when no microtask is queued
TaskTurn == micro = << >>

(***************************************************************************)
(* The Router API                                                          *)
(***************************************************************************)
\* a registry that keeps the handler a page already has
RegistryKeepingFirst(pageName, callback) ==
    IF pageHandlers[pageName] = "none"
    THEN [pageHandlers EXCEPT ![pageName] = callback]
    ELSE pageHandlers

\* pageHandlers.set(pageName, callback)
RegistryAfter(pageName, callback) == [pageHandlers EXCEPT ![pageName] = callback]

\* onPage(pageName, callback)
OnPage(pageName, callback) ==
    /\ TaskTurn
    /\ pageHandlers' = RegistryAfter(pageName, callback)
    /\ registered' = [registered EXCEPT ![pageName] = callback]
    /\ UNCHANGED <<search, hist, hidx, patched, pageCache, sessionStorage,
                   usePersistentCache, remote, engine, root, res, nres, micro, faults, lastNav>>

\* clearCache()
ClearCache ==
    /\ TaskTurn
    /\ sessionStorage' =
           IF usePersistentCache
           THEN [k \in DOMAIN sessionStorage |->
                    IF HasCachePrefix(k) THEN Null ELSE sessionStorage[k]]
           ELSE sessionStorage
    /\ pageCache' = [k \in DOMAIN pageCache |-> Undefined]
    /\ UNCHANGED <<search, hist, hidx, patched, pageHandlers, usePersistentCache, remote, engine, registered,
                   root, res, nres, micro, faults, lastNav>>

\* init(): patchHistoryMethods(), then handleRouteChange()
RouterInit ==
    /\ TaskTurn
    /\ patched' = patched + 1
    /\ StartResolutions(1, search)
    /\ UNCHANGED <<search, hist, hidx, pageHandlers, pageCache, sessionStorage,
                   usePersistentCache, remote, engine, registered, root, faults, lastNav>>

\* navigate(params, options): history.pushState(url), which runs the original
\* pushState and then one handleRouteChange per wrapper put on it
NavigateCall(params, preserve) ==
    /\ TaskTurn
    /\ Len(hist) < MaxHist \/ hidx < Len(hist)
    /\ search' = NavigateUrl(search, params, preserve)
    /\ hist' = Append(SubSeq(hist, 1, hidx), search')
    /\ hidx' = hidx + 1
    /\ StartResolutions(patched, search')
    /\ lastNav' = [called |-> TRUE, params |-> params, preserve |-> preserve,
                   from |-> search]
    /\ UNCHANGED <<patched, pageHandlers, pageCache, sessionStorage,
                   usePersistentCache, engine, registered, faults>>

\* navigate called by the page itself, with no operation on the remote API
\* under way and the output target left alone
Navigate(params, preserve) ==
    /\ NavigateCall(params, preserve)
    /\ UNCHANGED <<remote, root>>

\* the user goes back or forward to entry i: the popstate listener runs
Popstate(i) ==
    /\ TaskTurn
    /\ i \in 1..Len(hist) /\ i # hidx
    /\ hidx' = i
    /\ search' = hist[i]
    /\ StartResolutions(1, search')
    /\ lastNav' = NoNav
    /\ UNCHANGED <<hist, patched, pageHandlers, pageCache, sessionStorage,
                   usePersistentCache, remote, engine, registered, root, faults>>

(***************************************************************************)
(* The continuations of a resolution                                       *)
(***************************************************************************)
\* loadPageScript without the test of jsResponse.ok
ScriptFetchedAnyStatus(o) == o.kind = "response"

\* the `if (jsResponse.ok)' branch of loadPageScript is taken
ScriptFetched(o) == o.kind = "response" /\ o.ok

\* how a request ended, for the record
OutcomeKind(o) == IF o.kind = "neterr" THEN "neterr" ELSE IF o.ok THEN "ok" ELSE "status"

\* the template request of resolution r ends in outcome o: `await fetch(...)'
\* and `await response.text()' of handleRouteChange give a text unless fetch
\* rejects, which it does on a network error alone; the status is not read
TemplateResponse(r, o) ==
    /\ TaskTurn
    /\ res[r].pc = "awaitTpl"
    /\ Outcome(o, Response(TRUE, TemplateOf(res[r].page)))
    /\ LET rec == [res[r] EXCEPT !.tplOut = OutcomeKind(o)]
       IN IF o.kind # "response"
          THEN /\ Step(r, CatchDeliver(rec))
               /\ UNCHANGED <<pageCache, sessionStorage, micro>>
          ELSE LET html == Str(o.body)
                   page == rec.page
                   next == LoadPageScript([rec EXCEPT !.html = html],
                                          getCachedPage(page, "js"))
               IN /\ pageCache' = CacheAfterSet(page, html, "html")
                  /\ sessionStorage' = StorageAfterSet(page, html, "html")
                  /\ Step(r, next)
                  /\ micro' = IF next.pc = "micro" THEN Append(micro, r) ELSE micro
    /\ UNCHANGED <<search, hist, hidx, patched, pageHandlers, usePersistentCache, remote, engine, registered, nres,
                   lastNav>>

\* the script request of resolution r ends in outcome o
ScriptResponse(r, o) ==
    /\ TaskTurn
    /\ res[r].pc = "awaitJs"
    /\ Outcome(o, IF res[r].page = CarPage THEN Response(TRUE, ScriptOf(res[r].page))
                                           ELSE Response(FALSE, NotFoundBody))
    /\ LET rec == [res[r] EXCEPT !.jsOut = OutcomeKind(o), !.pc = "micro"]
       IN IF ScriptFetched(o)
          THEN /\ Step(r, [rec EXCEPT !.jsCode = Str(o.body)])
               /\ pageCache' = CacheAfterSet(rec.page, Str(o.body), "js")
               /\ sessionStorage' = StorageAfterSet(rec.page, Str(o.body), "js")
          ELSE /\ Step(r, rec)
               /\ UNCHANGED <<pageCache, sessionStorage>>
    /\ micro' = Append(micro, r)
    /\ UNCHANGED <<search, hist, hidx, patched, pageHandlers, usePersistentCache, remote, engine, registered, nres,
                   lastNav>>

\* the first queued microtask runs: handleRouteChange resumes after
\* `await loadPageScript(page)'
Microtask ==
    /\ micro # << >>
    /\ LET r == Head(micro) IN Step(r, Deliver(res[r]))
    /\ micro' = Tail(micro)
    /\ UNCHANGED <<search, hist, hidx, patched, pageHandlers, pageCache,
                   sessionStorage, usePersistentCache, remote, engine, registered, nres, faults, lastNav>>

(***************************************************************************)
(* The handlers of src/main.js after their API request                     *)
(***************************************************************************)
\* the parameter object the handler renders its template with
HandlerParams(handler, json) ==
    IF handler = "listCars" THEN Obj(<<Pair("cars", json)>>) ELSE json

\* the message of the handler's catch block
HandlerError(rec) ==
    IF rec.handler = "listCars"
    THEN <<"Error while loading cars">>
    ELSE <<"Error while loading car with id ">> \o JsString(EntryValue(rec.params, "id"))

\* the handler's code after `await api(...)', with o the outcome of the request
HandlerResumed(rec, o) ==
    LET call == Events(rec, "call")[Len(Events(rec, "call"))]
        out == IF o.kind = "neterr" THEN Thrown
               ELSE inject(call.text, HandlerParams(rec.handler, o.body))
    IN IF out.thrown
       THEN [rec EXCEPT !.log = Append(@, Ev("write", "handler",
                                             renderError(HandlerError(rec)), "-")),
                        !.pc = "done"]
       ELSE LET shown == [Rendered(rec, out.s, "handler") EXCEPT !.pc = "done"]
            IN IF rec.handler = "showCar"
               THEN Hydrated(shown, call.hyd, "handler") ELSE shown

ApiOutcomes(handler) == {NetErr, Response(TRUE, ApiJson(handler))}

\* the API request of the handler that resolution r called ends in outcome o
ApiResponse(r, o) ==
    /\ TaskTurn
    /\ res[r].pc = "awaitApi"
    /\ Outcome(o, Response(TRUE, ApiJson(res[r].handler)))
    /\ Step(r, HandlerResumed(res[r], o))
    /\ UNCHANGED <<search, hist, hidx, patched, pageHandlers, pageCache,
                   sessionStorage, usePersistentCache, remote, engine, registered, nres, micro, lastNav>>

Next ==
    \/ \E p \in PageNames : OnPage(p, IF p = HomePage THEN "listCars" ELSE "showCar")
    \/ ClearCache
    \/ RouterInit
    \/ \E c \in NavChoices : Navigate(c.params, c.preserve)
    \/ \E i \in 1..MaxHist : Popstate(i)
    \/ \E r \in Res : \E o \in TemplateOutcomes(res[r].page) : TemplateResponse(r, o)
    \/ \E r \in Res : \E o \in ScriptOutcomes(res[r].page) : ScriptResponse(r, o)
    \/ Microtask
    \/ \E r \in Res : \E o \in ApiOutcomes(res[r].handler) : ApiResponse(r, o)

Spec == InitRouter /\ [][Next]_vars

(***************************************************************************)
(* Properties of the router                                                *)
(***************************************************************************)
Started(r) == res[r].pc # "idle"
Delivered(rec) == Len(Events(rec, "call")) + Len(Events(rec, "write")) > 0
Finished(rec) == rec.pc \in {"awaitApi", "done"}
Present(entry) == entry.t = "str"
IsPrefix(a, b) == Len(a) <= Len(b) /\ SubSeq(b, 1, Len(a)) = a

\* C2: overlapping route changes are neither sequenced nor cancelled: a step
\* of one resolution leaves the others as they are, no started resolution is
\* dropped or loses what it has done, a resolution past its fetches has called
\* the handler or rendered, and the output target holds what the resolution
\* that wrote last wrote, whatever the URL shows by then
C2_LastCompletedWriteWins ==
    [][/\ \A r \in Res : Wrote(res[r], res'[r]) => root' = LastWrite(res'[r])
       /\ root' # root => \E r \in Res : Wrote(res[r], res'[r])
       /\ \A r \in Res : Started(r) =>
              /\ res'[r].pc # "idle"
              /\ IsPrefix(res[r].log, res'[r].log)
              /\ res'[r].params = res[r].params
       /\ \A r1, r2 \in Res :
              (Started(r1) /\ Started(r2) /\ r1 # r2) =>
                  (res'[r1] = res[r1] \/ res'[r2] = res[r2])
       /\ \A r \in Res : Finished(res'[r]) => Delivered(res'[r])]_vars

\* C2 witness: both resolutions have completed, the later one is the one of
\* the current URL, and the output target shows what the earlier one wrote
C2_StaleContentShown ==
    \E r1, r2 \in Res :
        /\ r1 < r2 /\ nres = r2
        /\ res[r1].pc = "done" /\ res[r2].pc = "done"
        /\ res[r2].url = search
        /\ res[r1].page # res[r2].page
        /\ root = LastWrite(res[r1])
        /\ root # LastWrite(res[r2])

\* C3: when the template request ends in a network error or a non-success
\* status, what the handler is called with, and what the router renders, is
\* the error message of the page
C3_FailedTemplateGivesErrorMessage ==
    \A r \in Res :
        res[r].tplOut \in {"neterr", "status"} =>
            \A i \in 1..Len(res[r].log) :
                LET ev == res[r].log[i]
                IN (ev.e = "call" \/ (ev.e = "write" /\ ev.by = "router"))
                       => ev.text = ErrorHtml(res[r].page)

\* every entry of the cache holds the text of a request that succeeded
CacheHoldsFetchedText ==
    \A k \in CacheKeys :
        Present(RawEntry(k[2], k[1])) =>
            \E r \in Res :
                /\ res[r].page = k[2]
                /\ IF k[1] = "html"
                   THEN res[r].tplOut = "ok" /\ res[r].html = RawEntry(k[2], k[1])
                   ELSE res[r].jsOut = "ok" /\ res[r].jsCode = RawEntry(k[2], k[1])

\* C4: a cache entry exists only if a request for its kind and page succeeded,
\* and an entry stays as it is until clear() empties the cache
C4_EntriesComeFromSuccessAndStay ==
    /\ []CacheHoldsFetchedText
    /\ [][\A k \in CacheKeys :
              Present(RawEntry(k[2], k[1])) =>
                  \/ RawEntry(k[2], k[1])' = RawEntry(k[2], k[1])
                  \/ \A j \in CacheKeys : ~Present(RawEntry(j[2], j[1])')]_vars

\* C5: a resolution requests the template if and only if the cache held no
\* template entry of its page when it started, and it uses the entry it found
C5_FetchIffNoEntry ==
    \A r \in Res :
        Started(r) =>
            /\ (res[r].tplReq > 0) <=> ~Present(res[r].rawTpl)
            /\ (Present(res[r].rawTpl) /\ Finished(res[r])) => res[r].html = res[r].rawTpl

\* a step that is a call of navigate
NavigateStep == lastNav'.called /\ hidx' # hidx

\* navigate has pushed the new URL onto the history
Pushed ==
    /\ search' = NavigateUrl(search, lastNav'.params, lastNav'.preserve)
    /\ hist' = Append(SubSeq(hist, 1, hidx), search')
    /\ hidx' = Len(hist')

\* a resolution of the new URL has started, as handleRouteChange starts it
RouteChangeStarted ==
    /\ nres' > nres
    /\ \A r \in (nres + 1)..nres' : res'[r] = StartRecord(search')

\* C6 as claimed: every call of navigate pushes the new URL and starts a
\* route-change resolution of it
C6_EveryNavigateStartsRouteChange ==
    [][NavigateStep => (Pushed /\ RouteChangeStarted)]_vars

\* C6 as amended: every call of navigate pushes the new URL, and every call
\* made after init() has been called starts a route-change resolution of it
C6_NavigateAfterInitStartsRouteChange ==
    [][NavigateStep => (Pushed /\ (patched >= 1 => RouteChangeStarted))]_vars

\* C6 witness: init() has been called, navigate has pushed the current URL
\* and the resolution it started is the last one started
C6_NavigatedAfterInit ==
    /\ patched >= 1 /\ lastNav.called /\ hidx = Len(hist) /\ hidx > 1
    /\ nres >= 2
    /\ res[nres].url = search
    /\ search = NavigateUrl(lastNav.from, lastNav.params, lastNav.preserve)

\* C7: with a handler registered for its page a resolution calls the handler
\* with the template text or the error text and a hydrate closure, the router
\* neither writes the output target nor invokes the closure nor runs the
\* script, and the script runs only in a hydrate call of the handler
C7_HandlerOwnsRenderAndHydrate ==
    \A r \in Res :
        res[r].handler # "none" =>
            /\ Finished(res[r]) => Len(Events(res[r], "call")) >= 1
            /\ \A i \in 1..Len(res[r].log) :
                   LET ev == res[r].log[i]
                   IN /\ ev.by = "router" => ev.e = "call"
                      /\ ev.e = "call" =>
                             \/ ev.text = ErrorHtml(res[r].page) /\ ev.hyd = "noop"
                             \/ ev.text = res[r].html.s /\ ev.hyd = "real"
                      /\ ev.e = "eval" =>
                             /\ i > 1
                             /\ res[r].log[i - 1].e = "hydrate"
                             /\ res[r].log[i - 1].by = "handler"
                             /\ res[r].handler = "showCar"

\* C7 witness: the handler of the car page has rendered and called hydrate,
\* which ran the script
C7_HandlerHydrated ==
    \E r \in Res :
        /\ res[r].handler = "showCar" /\ res[r].pc = "done"
        /\ Len(Events(res[r], "eval")) = 1
        /\ Len(EventsBy(res[r], "write", "handler")) = 1

\* what the default path leaves in the log of a resolution: the write of the
\* rendered template, then one invocation of hydrate, which runs the script
\* when there is one
DefaultLog(rec) ==
    <<Ev("write", "router", inject(rec.html.s, Obj(GetParams(rec.url))).s, "-"),
      Ev("hydrate", "router", << >>, "real")>>
        \o (IF Truthy(rec.jsCode) THEN <<Ev("eval", "router", rec.jsCode.s, "-")>>
            ELSE << >>)

\* C8: with no handler and the template resolved, the output target is set to
\* the template rendered with the URL parameters and then hydrate is invoked
\* exactly once
C8_DefaultRenderThenHydrateOnce ==
    \A r \in Res :
        (res[r].handler = "none" /\ res[r].pc = "done" /\ res[r].tplOut \in {"none", "ok"})
            => res[r].log = DefaultLog(res[r])

\* C8 witness: a resolution without handler has rendered a fetched template
\* and run the script of the page once
C8_DefaultRendered ==
    \E r \in Res :
        /\ res[r].handler = "none" /\ res[r].pc = "done" /\ res[r].tplOut = "ok"
        /\ res[r].html.s # << >>
        /\ Len(Events(res[r], "eval")) = 1
        /\ root = res[r].log[1].text

\* C9: on a failure of the template request (a network error or a non-success
\* status) a registered handler is called with the error message of the page,
\* and with no handler the error message is written to the output target and
\* nothing else happens: no invocation of hydrate, no script run
C9_FailureTakesTemplatePath ==
    \A r \in Res :
        (res[r].tplOut \in {"neterr", "status"} /\ Finished(res[r])) =>
            IF res[r].handler # "none"
            THEN Events(res[r], "call") = <<Ev("call", "router", ErrorHtml(res[r].page), "noop")>>
            ELSE res[r].log = <<Ev("write", "router", ErrorHtml(res[r].page), "-")>>

\* what a resolution has delivered is its template, not an error message
TemplateDelivered(rec) ==
    /\ \A i \in 1..Len(rec.log) :
           (rec.log[i].e \in {"call", "write"}) => rec.log[i].text # ErrorHtml(rec.page)
    /\ IF rec.handler # "none"
       THEN Events(rec, "call") = <<Ev("call", "router", rec.html.s, "real")>>
       ELSE EventsBy(rec, "write", "router")
                = <<Ev("write", "router", inject(rec.html.s, Obj(GetParams(rec.url))).s, "-")>>

\* C10: a script request that ends in a network error or a non-success status
\* is no error of the route change: the template that was resolved is
\* delivered to the handler or rendered, no error message is shown, the
\* hydrate closure does nothing, and the request caches no script entry
C10_ScriptFailureIsSilent ==
    /\ [](\A r \in Res :
             res[r].jsOut \in {"neterr", "status"} =>
                 /\ ~Truthy(res[r].jsCode)
                 /\ Events(res[r], "eval") = << >>
                 /\ (Finished(res[r]) /\ res[r].tplOut \in {"none", "ok"})
                        => TemplateDelivered(res[r]))
    /\ [][\A r \in Res :
              (res[r].jsOut = "none" /\ res'[r].jsOut \in {"neterr", "status"}) =>
                  \A p \in PageNames : RawEntry(p, "js")' = RawEntry(p, "js")]_vars

\* C10 witness: the script request of a resolution failed on the network, its
\* fetched template has been rendered and hydrate has been invoked to no effect
C10_RenderedWithoutScript ==
    \E r \in Res :
        /\ res[r].jsOut = "neterr" /\ res[r].tplOut = "ok" /\ res[r].pc = "done"
        /\ res[r].handler = "none"
        /\ Len(Events(res[r], "hydrate")) = 1
        /\ root = inject(TemplateOf(res[r].page), Obj(GetParams(res[r].url))).s
        /\ ~Present(RawEntry(res[r].page, "js"))

(***************************************************************************)
(* navigate as a function of the URL: the page loads with any query of at  *)
(* most MaxQueryLen pairs and navigate is called with any of NavParams.    *)
(* init() has not been called, so that pushState runs no route change.     *)
(***************************************************************************)
MaxQueryLen == 3

InitQueries ==
    LET QueryPairs ==
            {Pair("page", <<"car">>), Pair("id", <<"5">>), Pair("sort", <<"asc">>),
             Pair("q", <<"x">>)}
    IN UNION {{[i \in 1..n |-> f[i]] : f \in [1..n -> QueryPairs]} : n \in 0..MaxQueryLen}

NavParams ==
    {<< >>,
     <<Pair("page", Str(HomePage))>>,
     <<Pair("sort", Str(<<"asc">>))>>,
     <<Pair("id", Null)>>,
     <<Pair("q", Null), Pair("id", Num(7))>>,
     <<Pair("id", Num(7)), Pair("sort", Undefined)>>,
     <<Pair("page", Str(CarPage)), Pair("id", Str(<<"5">>))>>}

SpecNav ==
    /\ \E url \in InitQueries : InitAt(url)
    /\ [][\E params \in NavParams, preserve \in BOOLEAN : Navigate(params, preserve)]_vars

\* C1: after navigate(params) without preserveParams the query holds no key
\* outside {"page"} united with the keys of params
C1_OnlyAllowedKeysRemain ==
    (lastNav.called /\ ~lastNav.preserve) => Names(search) \subseteq AllowedKeys(lastNav.params)

\* the query has exactly one pair named key, and it holds the string form of value
SetTo(query, key, value) ==
    SPCount(query, key) = 1 /\ SPGet(query, key) = JsString(value)

\* C12 as claimed: after navigate(params) a key of params whose value is null
\* is not in the query, and every other key of params is in it exactly once,
\* with the string form of its value
C12_NullDeletesOthersSet ==
    lastNav.called =>
        \A i \in 1..Len(lastNav.params) :
            LET e == lastNav.params[i]
            IN IF e.value.t = "null"
               THEN ~SPHas(search, e.name)
               ELSE SetTo(search, e.name, e.value)

\* C12 as amended: a key of params whose value is null or undefined is not in
\* the query, and every other key of params is in it exactly once, with the
\* string form of its value
C12_NullishDeletesOthersSet ==
    lastNav.called =>
        \A i \in 1..Len(lastNav.params) :
            LET e == lastNav.params[i]
            IN IF e.value.t \in {"null", "undefined"}
               THEN ~SPHas(search, e.name)
               ELSE SetTo(search, e.name, e.value)

\* C12 witness: navigate({q: null, id: 7}) on a query that had q, and had id
\* more than once, has removed q and left one id, "7"
C12_DeletedAndSet ==
    /\ lastNav.called
    /\ lastNav.params = <<Pair("q", Null), Pair("id", Num(7))>>
    /\ SPHas(lastNav.from, "q") /\ SPCount(lastNav.from, "id") = 2
    /\ ~SPHas(search, "q")
    /\ SPCount(search, "id") = 1 /\ SPGet(search, "id") = <<"7">>

\* the pairs of a query that are named page, in order
PagePairs(query) == SelectSeq(query, LAMBDA e : e.name = "page")

\* the query navigate({page: "car", id: "5"}) leaves when the page was loaded
\* without a query
CarFiveQuery ==
    NavigateUrl(<< >>, <<Pair("page", Str(CarPage)), Pair("id", Str(<<"5">>))>>, FALSE)

MaxRouteLen == 2

RouteQueries ==
    LET RoutePairs ==
            {Pair("page", CarPage), Pair("page", HomePage), Pair("page", << >>),
             Pair("id", <<"5">>)}
    IN UNION {{[i \in 1..n |-> f[i]] : f \in [1..n -> RoutePairs]} : n \in 0..MaxRouteLen}

SpecRoute ==
    /\ \E url \in RouteQueries : InitAt(url)
    /\ [][ \/ \E p \in PageNames : OnPage(p, IF p = HomePage THEN "listCars" ELSE "showCar")
           \/ RouterInit
           \/ \E r \in Res : \E o \in TemplateOutcomes(res[r].page) : TemplateResponse(r, o)
           \/ \E r \in Res : \E o \in ScriptOutcomes(res[r].page) : ScriptResponse(r, o)
           \/ Microtask
           \/ \E r \in Res : \E o \in ApiOutcomes(res[r].handler) : ApiResponse(r, o) ]_vars

\* the values of the page pairs of a query, and the value of the last of them
PageValues(url) == {url[i].value : i \in {j \in 1..Len(url) : url[j].name = "page"}}

LastPageValue(url) ==
    url[CHOOSE i \in 1..Len(url) :
            /\ url[i].name = "page"
            /\ \A j \in (i + 1)..Len(url) : url[j].name # "page"].value

\* the handler lookup, the template request and the script request of a
\* resolution that has just started, or is under way, all use the name page
UsesPage(rec, page, handlers) ==
    /\ rec.page = page
    /\ rec.handler = handlers[page]
    /\ rec.tplReq > 0 => rec.tplSrc = TemplateSource(page)
    /\ rec.jsReq > 0 => rec.jsSrc = ScriptSource(page)

\* C11 as claimed: the resolved page name is the page parameter of the URL
\* when the URL has one and "home" when it has none, and the handler lookup,
\* the template source and the script source use that name
C11_PageIsParameterOrHome ==
    [][\A r \in Res :
          res'[r].pc # "idle" =>
              \E page \in (IF SPHas(res'[r].url, "page") THEN PageValues(res'[r].url)
                                                         ELSE {HomePage}) :
                  UsesPage(res'[r], page,
                           IF res[r].pc = "idle" THEN pageHandlers
                           ELSE [p \in PageNames |-> res[r].handler])]_vars

\* the page a URL resolves to: its last page parameter when that is not
\* empty, "home" otherwise
ResolvedPage(url) ==
    IF SPHas(url, "page") /\ LastPageValue(url) # << >>
    THEN LastPageValue(url) ELSE HomePage

\* C11 as amended: the resolved page name is the page parameter of the URL (the
\* last one when it is repeated) when it is present and not empty, and "home"
\* when it is absent or empty; the handler lookup, the template source and the
\* script source use that name
C11_PageIsNonEmptyParameterOrHome ==
    [][\A r \in Res :
          res'[r].pc # "idle" =>
              UsesPage(res'[r], ResolvedPage(res'[r].url),
                       IF res[r].pc = "idle" THEN pageHandlers
                       ELSE [p \in PageNames |-> res[r].handler])]_vars

\* C11 witness: the URL repeats the page parameter, the resolution took the
\* car page from the last one, called the handler registered for it and
\* requested the template and the script of that page
C11_CarPageResolved ==
    \E r \in Res :
        /\ Cardinality(PageValues(res[r].url)) = 2
        /\ res[r].page = CarPage /\ LastPageValue(res[r].url) = CarPage
        /\ res[r].handler = "showCar" /\ Len(Events(res[r], "call")) = 1
        /\ res[r].tplSrc = TemplateSource(CarPage)
        /\ res[r].jsSrc = ScriptSource(CarPage)

(***************************************************************************)
(* The page cache on its own, in both backend modes: setCachedPage is      *)
(* called with any page, type and text, and clearCache is called.          *)
(***************************************************************************)
CacheTexts ==
    {<< >>, <<"<", "h1", ">", "X", "<", "/h1", ">">>, ScriptOf(CarPage)}

\* setCachedPage(page, content, type)
SetCachedPage(page, content, type) ==
    /\ pageCache' = CacheAfterSet(page, content, type)
    /\ sessionStorage' = StorageAfterSet(page, content, type)
    /\ UNCHANGED <<search, hist, hidx, patched, pageHandlers, usePersistentCache, remote, engine, registered,
                   root, res, nres, micro, faults, lastNav>>

SpecCache ==
    /\ \E persistent \in BOOLEAN : InitMode(<< >>, persistent)
    /\ [][ \/ \E page \in PageNames, type \in CacheTypes, text \in CacheTexts :
                  SetCachedPage(page, Str(text), type)
           \/ ClearCache ]_vars

\* a step that is a call of setCachedPage
SomePut ==
    \E page \in PageNames, type \in CacheTypes, text \in CacheTexts :
        SetCachedPage(page, Str(text), type)

\* C14: in both backend modes put(page, kind, text) followed by get(page, kind)
\* returns that text, for every text; after clear() get returns absent for
\* every page and kind, and goes on doing so until the next put
C14_PutGetRoundTrip ==
    [][/\ \A page \in PageNames, type \in CacheTypes, text \in CacheTexts :
              SetCachedPage(page, Str(text), type)
                  => getCachedPage(page, type)' = Str(text)
       /\ ClearCache => \A k \in CacheKeys : getCachedPage(k[2], k[1])' = Null
       /\ ~SomePut => \A k \in CacheKeys :
              getCachedPage(k[2], k[1]) = Null => getCachedPage(k[2], k[1])' = Null]_vars

\* C15: put(page, kind, text) leaves the entry of the other kind of that page
\* and every entry of every other page as they are
C15_PutLeavesOtherEntries ==
    [][\A page \in PageNames, type \in CacheTypes, text \in CacheTexts :
          SetCachedPage(page, Str(text), type) =>
              \A k \in CacheKeys \ {<<type, page>>} :
                  /\ RawEntry(k[2], k[1])' = RawEntry(k[2], k[1])
                  /\ getCachedPage(k[2], k[1])' = getCachedPage(k[2], k[1])]_vars

\* C15 witness: the template and the script of the car page and the template
\* of the home page are cached with three different texts
C15_ThreeEntries ==
    /\ getCachedPage(CarPage, "html") = Str(<<"<", "h1", ">", "X", "<", "/h1", ">">>)
    /\ getCachedPage(CarPage, "js") = Str(ScriptOf(CarPage))
    /\ RawEntry(HomePage, "html") = Str(<< >>)
    /\ ~Present(RawEntry(HomePage, "js"))

\* C16: in persistent mode an entry is stored in the session store under the
\* key RouterCache:<kind>:<page> and nowhere else, and clear() removes the keys
\* of the store that start with RouterCache: and leaves every other key with
\* its value
C16_PrefixedKeysOnly ==
    [][usePersistentCache =>
          /\ \A page \in PageNames, type \in CacheTypes, text \in CacheTexts :
                 SetCachedPage(page, Str(text), type) =>
                     /\ sessionStorage'[<<"RouterCache", type, page>>] = Str(text)
                     /\ \A k \in StorageKeys \ {<<"RouterCache", type, page>>} :
                            sessionStorage'[k] = sessionStorage[k]
                     /\ pageCache' = pageCache
          /\ ClearCache =>
                 \A k \in StorageKeys :
                     sessionStorage'[k] = IF k[1] = "RouterCache" THEN Null
                                          ELSE sessionStorage[k]]_vars

\* C16 witness: in persistent mode clear() has removed the foreign key that
\* starts with RouterCache:, the other foreign keys hold their values, and an
\* entry put since is stored under its key
C16_ClearedThenStored ==
    /\ usePersistentCache
    /\ sessionStorage[<<"RouterCache", "draft">>] = Null
    /\ sessionStorage[<<"theme">>] = Str(<<"dark">>)
    /\ sessionStorage[<<"RouterCacheBackup">>] = Str(<<"dark">>)
    /\ sessionStorage[<<"RouterCache", "js", CarPage>>] = Str(ScriptOf(CarPage))
    /\ \A k \in CacheKeys : pageCache[k] = Undefined

(***************************************************************************)
(* Hydrate closures that are kept: the page loads on the car page, and the *)
(* code a closure was handed to invokes it again later, up to MaxHydrate   *)
(* invocations of one closure, while the cache is cleared and filled again *)
(* and the script on the server is replaced.                               *)
(***************************************************************************)
MaxHydrate == 2

\* scripts/<page>.js after it has been replaced on the server
UpdatedScriptOf(page) == <<"script2:">> \o page

\* the closure the handler of resolution r was called with is invoked again
HydrateAgain(r) ==
    /\ TaskTurn
    /\ res[r].pc = "done"
    /\ Events(res[r], "call") # << >>
    /\ Len(Events(res[r], "hydrate")) < MaxHydrate
    /\ Step(r, Hydrated(res[r], Events(res[r], "call")[1].hyd, "handler"))
    /\ UNCHANGED <<search, hist, hidx, patched, pageHandlers, pageCache,
                   sessionStorage, usePersistentCache, remote, engine, registered, nres, micro, faults, lastNav>>

SpecHydrate ==
    /\ InitAt(<<Pair("page", CarPage)>>)
    /\ [][ \/ OnPage(CarPage, "showCar")
           \/ ClearCache
           \/ RouterInit
           \/ \E r \in Res : \E o \in TemplateOutcomes(res[r].page) : TemplateResponse(r, o)
           \/ \E r \in Res :
                  \E o \in ScriptOutcomes(res[r].page)
                               \cup {Response(TRUE, UpdatedScriptOf(res[r].page))} :
                      ScriptResponse(r, o)
           \/ Microtask
           \/ \E r \in Res : \E o \in ApiOutcomes(res[r].handler) : ApiResponse(r, o)
           \/ \E r \in Res : HydrateAgain(r) ]_vars

\* the hydrate closure of a resolution has been built
ClosureBuilt(rec) == rec.pc \in {"awaitApi", "done"}

\* C17: every invocation of a hydrate closure executes the script text that
\* was resolved when the closure was built, whatever has happened to the cache
\* since, and a closure built with no script, and the fallback closure of the
\* error path, execute nothing
C17_ClosureRunsItsOwnScript ==
    [][\A r \in Res :
          /\ ClosureBuilt(res[r]) => res'[r].jsCode = res[r].jsCode
          /\ \A i \in 1..Len(res'[r].log) :
                 LET ev == res'[r].log[i]
                     runs == ev.hyd = "real" /\ Truthy(res'[r].jsCode)
                     next == IF i < Len(res'[r].log) THEN res'[r].log[i + 1]
                             ELSE Ev("none", "-", << >>, "-")
                 IN /\ (ev.e = "hydrate" /\ runs)
                        => (next.e = "eval" /\ next.text = res'[r].jsCode.s)
                    /\ (ev.e = "hydrate" /\ ~runs) => next.e # "eval"
                    /\ ev.e = "eval" => (i > 1 /\ res'[r].log[i - 1].e = "hydrate")]_vars

\* C17 witness: a closure has executed its script twice, the second time after
\* the cache was cleared and filled with the script that replaced it
C17_RanTwiceAcrossClear ==
    \E r \in Res :
        /\ Len(Events(res[r], "eval")) = 2
        /\ Events(res[r], "eval")[1].text = ScriptOf(CarPage)
        /\ Events(res[r], "eval")[2].text = ScriptOf(CarPage)
        /\ getCachedPage(CarPage, "js") = Str(UpdatedScriptOf(CarPage))

(***************************************************************************)
(* The handler registry: onPage is called with any page name and any of    *)
(* the callbacks, again and again, between the route changes that init()   *)
(* starts on the car page.                                                 *)
(***************************************************************************)
SpecRegistry ==
    /\ InitAt(<<Pair("page", CarPage)>>)
    /\ [][ \/ \E p \in PageNames, callback \in {"listCars", "showCar"} : OnPage(p, callback)
           \/ RouterInit
           \/ \E r \in Res : \E o \in TemplateOutcomes(res[r].page) : TemplateResponse(r, o)
           \/ \E r \in Res : \E o \in ScriptOutcomes(res[r].page) : ScriptResponse(r, o)
           \/ Microtask
           \/ \E r \in Res : \E o \in ApiOutcomes(res[r].handler) : ApiResponse(r, o) ]_vars

\* C18: the registry holds for every page name the callback of the last
\* onPage call for it and no other, a route change takes the handler the
\* registry holds for its page when it starts, and it is that handler and no
\* other that the route change calls, once
C18_LastRegistrationWins ==
    /\ [](pageHandlers = registered)
    /\ [][\A r \in Res :
              /\ (res[r].pc = "idle" /\ res'[r].pc # "idle")
                     => res'[r].handler = registered[res'[r].page]
              /\ res[r].pc # "idle" => res'[r].handler = res[r].handler
              /\ Len(Events(res'[r], "call")) <= 1
              /\ res'[r].handler = "none" => Events(res'[r], "call") = << >>]_vars

\* C18 witness: a route change of the car page called the handler registered
\* first, the page was registered again, and the next route change of the car
\* page called the handler registered last
C18_SecondHandlerCalled ==
    /\ nres = 2
    /\ res[1].page = CarPage /\ res[2].page = CarPage
    /\ res[1].handler = "showCar" /\ Len(Events(res[1], "call")) = 1
    /\ res[2].handler = "listCars" /\ Len(Events(res[2], "call")) = 1
    /\ pageHandlers[CarPage] = "listCars"

(***************************************************************************)
(* The template engine on its own: inject is called once with any of the   *)
(* templates and any of the parameter values below.                        *)
(***************************************************************************)
\* {{#each items}}[{{ v }}]{{/each}}
EachItemsTemplate ==
    <<"{{", "#each", " ", "items", "}}", "[", "{{", " ", "v", " ", "}}", "]",
      "{{", "/each", "}}">>

\* X{{ missing }}Y
MissingKeyTemplate == <<"X", "{{", " ", "missing", " ", "}}", "Y">>

\* {{#if missing}}X{{/if}}
IfMissingTemplate == <<"{{", "#if", " ", "missing", "}}", "X", "{{", "/if", "}}">>

InjectTemplates ==
    {EachItemsTemplate,
     MissingKeyTemplate,
     IfMissingTemplate,
     <<"[", "{{", "brand", "}}", "|", "{{", " ", "id", " ", "}}", "]">>,
     TemplateOf(HomePage),
     TemplateOf(CarPage),
     <<"{{", "#each", " ", "items", "}}", "-", "{{", "/each", "}}">>,
     <<"{{", "#if", " ", "brand", "}}", "{{", "brand", "}}", "{{", "/if", "}}", "!">>}

InjectParams ==
    LET KeyValues ==
            {Str(<< >>), Str(<<"x">>), Num(0), Num(5), Bool(FALSE), Bool(TRUE), Null,
             Arr(<< >>), Obj(<< >>)}
    IN
    {Undefined,
     Obj(<< >>),
     Obj(<<Pair("items", Arr(<<Str(<<"a">>), Str(<<"<", "b", ">">>)>>))>>),
     Obj(<<Pair("items", Arr(<<Str(<<"a">>)>>))>>),
     Obj(<<Pair("items", Arr(<<Num(5), Bool(TRUE)>>))>>),
     Obj(<<Pair("items", Arr(<<Undefined, Str(<<"a">>)>>))>>),
     Obj(<<Pair("items", Arr(<<Null>>))>>),
     Obj(<<Pair("items", Arr(<<Obj(<<Pair("v", Str(<<"a">>))>>),
                               Obj(<<Pair("v", Str(<<"<", "b", ">">>))>>)>>))>>),
     Obj(<<Pair("items", Str(<<"a">>))>>),
     Obj(<<Pair("cars", Arr(<<Obj(<<Pair("brand", Str(<<"Toyota">>))>>),
                              Obj(<<Pair("brand", Str(<<"Honda">>))>>)>>))>>),
     Obj(<<Pair("brand", Str(<<"<", "b", ">">>)), Pair("id", Num(5))>>),
     Obj(<<Pair("brand", Str(<<"<", "&", ">", "\"", "'", "x">>)),
           Pair("id", Arr(<<Str(<<"<", "b", ">">>), Str(<<"&">>)>>))>>),
     \* values that hold template syntax: {{id}}, {{secret}}, {{#if secret}}x{{/if}}
     Obj(<<Pair("brand", Str(<<"{{", "id", "}}">>)), Pair("id", Num(5))>>),
     Obj(<<Pair("items", Arr(<<Obj(<<Pair("v", Str(<<"{{", "secret", "}}">>))>>)>>)),
           Pair("secret", Str(<<"x">>))>>),
     Obj(<<Pair("items",
                Arr(<<Obj(<<Pair("v", Str(<<"{{", "#if", " ", "secret", "}}", "x",
                                            "{{", "/if", "}}">>))>>)>>))>>)}
        \cup {Obj(<<Pair("missing", v)>>) : v \in KeyValues}
        \cup {Obj(<<Pair("cars", v)>>) : v \in KeyValues}

\* inject(html, params), called on its own
Inject ==
    /\ ~engine.called
    /\ engine' = [engine EXCEPT !.called = TRUE,
                                !.out = inject(engine.html, engine.params)]
    /\ UNCHANGED <<search, hist, hidx, patched, pageHandlers, pageCache, sessionStorage,
                   usePersistentCache, remote, registered, root, res, nres, micro, faults,
                   lastNav>>

SpecInject ==
    /\ \E html \in InjectTemplates, params \in InjectParams :
           InitWith(<< >>, FALSE, [NoInject EXCEPT !.html = html, !.params = params])
    /\ [][Inject]_vars

\* the elements of items are strings
StringItems(params) ==
    /\ params.t = "obj" /\ HasKey(params.o, "items")
    /\ EntryValue(params.o, "items").t = "arr"
    /\ \A i \in 1..Len(EntryValue(params.o, "items").a) :
           EntryValue(params.o, "items").a[i].t = "str"

\* [e] for every element e of the array, escaped, in array order
RECURSIVE Bracketed(_, _)
Bracketed(arr, i) ==
    IF i > Len(arr) THEN << >>
    ELSE <<"[">> \o escapeHtml(arr[i]) \o <<"]">> \o Bracketed(arr, i + 1)

\* C19: the iteration block with body [{{ v }}] over an array of strings
\* renders one copy of the body per element in array order, with the element
\* escaped in the place of the placeholder: "[a][&lt;b&gt;]" for ["a", "<b>"]
C19_ScalarElementsAreBound ==
    (engine.called /\ engine.html = EachItemsTemplate /\ StringItems(engine.params))
        => engine.out = Returned(Bracketed(EntryValue(engine.params.o, "items").a, 1))

\* C20: inject returns a string and throws nothing, whatever the parameter
\* object and the elements of its arrays, and a placeholder whose key the
\* parameter object does not have is replaced by the empty string
C20_InjectNeverThrows ==
    engine.called =>
        /\ ~engine.out.thrown
        /\ (engine.html = MissingKeyTemplate /\ Prop(engine.params, "missing") = Undefined)
               => engine.out = Returned(<<"X", "Y">>)

\* the characters escapeHtml replaces, and how many of them a string holds
SpecialTokens == {"<", ">", "&", "\"", "'"}

SpecialCount(str) == Cardinality({i \in 1..Len(str) : str[i] \in SpecialTokens})

\* the template has scalar placeholders only
OnlyScalars(html) == \A i \in 1..Len(html) : html[i] \notin {"#each", "/each", "#if", "/if"}

\* C21: in the output of a template that has scalar placeholders only, the
\* characters <, >, &, " and ' are those of the template itself: none of them
\* comes from a value of the parameter object
C21_ValuesAreEscaped ==
    (engine.called /\ OnlyScalars(engine.html))
        => /\ ~engine.out.thrown
           /\ SpecialCount(engine.out.s) = SpecialCount(engine.html)

\* C21 witness: the car template has been rendered with a brand that holds all
\* five characters and an id that is an array of strings holding three of them
C21_AllFiveEscaped ==
    /\ engine.called /\ engine.html = TemplateOf(CarPage)
    /\ Prop(engine.params, "brand") = Str(<<"<", "&", ">", "\"", "'", "x">>)
    /\ engine.out.s = <<"<", "h1", ">", "&lt;", "&amp;", "&gt;", "&quot;", "&#039;", "x",
                        "&lt;", "b", "&gt;", ",", "&amp;">>

\* the escaped brand of every element of an array of objects, in array order
RECURSIVE BrandsOf(_, _)
BrandsOf(arr, i) ==
    IF i > Len(arr) THEN << >>
    ELSE (IF Prop(arr[i], "brand").t = "undefined" THEN << >>
          ELSE escapeHtml(Prop(arr[i], "brand"))) \o BrandsOf(arr, i + 1)

ObjectsOnly(arr) == \A i \in 1..Len(arr) : arr[i].t = "obj"

\* C22: the iteration block {{#each cars}}{{ brand }}{{/each}} renders as the
\* empty string when cars is not bound to an array, and as the body rendered
\* for every element in array order when it is bound to an array of objects:
\* "ToyotaHonda" for the brands Toyota and Honda
C22_EachOverObjects ==
    (engine.called /\ engine.html = TemplateOf(HomePage)) =>
        LET cars == Prop(engine.params, "cars")
        IN /\ cars.t # "arr" => engine.out = Returned(<< >>)
           /\ (cars.t = "arr" /\ ObjectsOnly(cars.a))
                  => engine.out = Returned(BrandsOf(cars.a, 1))

\* C22 witness: the cars Toyota and Honda have been rendered
C22_ToyotaHonda ==
    /\ engine.called /\ engine.html = TemplateOf(HomePage)
    /\ Prop(engine.params, "cars").t = "arr"
    /\ Len(Prop(engine.params, "cars").a) = 2
    /\ engine.out = Returned(<<"Toyota", "Honda">>)

\* truthiness as the claim lists it
TruthyAsListed(v) ==
    \/ v.t = "str" /\ v.s # << >>
    \/ v.t = "num" /\ v.n # 0
    \/ v.t = "bool" /\ v.b
    \/ v.t \in {"obj", "arr"}

\* C23: the conditional block {{#if missing}}X{{/if}} is replaced by X when
\* the key is bound to a non-empty string, a non-zero number, true, an object
\* or an array, the empty array included, and by the empty string when the
\* key is absent or bound to a falsy value
C23_IfOnTruthiness ==
    (engine.called /\ engine.html = IfMissingTemplate) =>
        engine.out = Returned(IF TruthyAsListed(Prop(engine.params, "missing"))
                              THEN <<"X">> ELSE << >>)

\* C23 witness: the block has been rendered on a key bound to the empty array
C23_EmptyArrayIsTruthy ==
    /\ engine.called /\ engine.html = IfMissingTemplate
    /\ Prop(engine.params, "missing") = Arr(<< >>)
    /\ engine.out = Returned(<<"X">>)

(***************************************************************************)
(* The remote API (src/utils/api.js) and the handlers and page scripts     *)
(* that call it.  A string is a sequence of tokens; the hyphen and the     *)
(* blank are tokens of their own.                                          *)
(***************************************************************************)
baseURL == "https://iit-playground.arondev.hu/api/FJYXPC/"

\* fetch(input, init): the request that goes out; the method is GET and
\* there is no body unless init says otherwise
Fetch(input, init) ==
    [url |-> input,
     method |-> IF HasKey(init, "method") THEN EntryValue(init, "method")
                ELSE Str(<<"GET">>),
     body |-> EntryValue(init, "body")]

\* const api = (url, params) => fetch(baseURL + url, {})
api(url, params) == Fetch(<<baseURL>> \o url, << >>)

\* parseFloat(s) and parseInt(s) on the strings the forms hold: the longest
\* numeric prefix, NaN when there is none
parseFloat(s) ==
    LET DecimalTokens == {"0", "5", "6", "7"}
        DecimalOf(t) == CASE t = "0" -> 0 [] t = "5" -> 5 [] t = "6" -> 6 [] OTHER -> 7
    IN IF s # << >> /\ s[1] \in DecimalTokens THEN Num(DecimalOf(s[1]))
       ELSE IF Len(s) > 1 /\ s[1] = "-" /\ s[2] \in DecimalTokens
            THEN Num(0 - DecimalOf(s[2]))
            ELSE [t |-> "nan"]

\* String.prototype.trim
trim(s) ==
    LET RECURSIVE TrimStart(_)
        TrimStart(t) == IF t # << >> /\ t[1] = " " THEN TrimStart(Tail(t)) ELSE t
        RECURSIVE TrimEnd(_)
        TrimEnd(t) ==
            IF t # << >> /\ t[Len(t)] = " " THEN TrimEnd(SubSeq(t, 1, Len(t) - 1)) ELSE t
    IN TrimEnd(TrimStart(s))

\* String.prototype.toLowerCase, token by token
toLowerCase(s) ==
    LET LowerToken(t) ==
            CASE t = "Audi" -> "audi"
              [] t = "BMW" -> "bmw"
              [] t = "Benz" -> "benz"
              [] t = "Chevrolet" -> "chevrolet"
              [] t = "Citroen" -> "citroen"
              [] t = "Fiat" -> "fiat"
              [] t = "Ford" -> "ford"
              [] t = "Honda" -> "honda"
              [] t = "Hyundai" -> "hyundai"
              [] t = "Jeep" -> "jeep"
              [] t = "Kia" -> "kia"
              [] t = "Lexus" -> "lexus"
              [] t = "Mazda" -> "mazda"
              [] t = "Mercedes" -> "mercedes"
              [] t = "Nissan" -> "nissan"
              [] t = "Opel" -> "opel"
              [] t = "Peugeot" -> "peugeot"
              [] t = "Porsche" -> "porsche"
              [] t = "Renault" -> "renault"
              [] t = "Seat" -> "seat"
              [] t = "Skoda" -> "skoda"
              [] t = "Subaru" -> "subaru"
              [] t = "Tesla" -> "tesla"
              [] t = "Toyota" -> "toyota"
              [] t = "Volkswagen" -> "volkswagen"
              [] t = "Volvo" -> "volvo"
              [] t = "Mitsubishi" -> "mitsubishi"
              [] t = "TOYOTA" -> "toyota"
              [] OTHER -> t
    IN [i \in 1..Len(s) |-> LowerToken(s[i])]

\* parseBrandModel(combinedInput) of the edit page:
\* combinedInput.split('-').map(part => part.trim()), then parts[0] and
\* parts.slice(1).join('-')
parseBrandModel(combinedInput) ==
    LET RECURSIVE SplitHyphen(_, _)
        SplitHyphen(s, part) ==
            IF s = << >> THEN <<part>>
            ELSE IF s[1] = "-" THEN <<part>> \o SplitHyphen(Tail(s), << >>)
                 ELSE SplitHyphen(Tail(s), Append(part, s[1]))
        RECURSIVE JoinHyphen(_)
        JoinHyphen(ps) ==
            IF ps = << >> THEN << >>
            ELSE IF Len(ps) = 1 THEN ps[1]
                 ELSE ps[1] \o <<"-">> \o JoinHyphen(Tail(ps))
        split == SplitHyphen(combinedInput, << >>)
        parts == [i \in 1..Len(split) |-> trim(split[i])]
    IN [brand |-> parts[1], model |-> JoinHyphen(Tail(parts))]

\* the accepted brands of the create page
validCarBrands ==
    <<<<"Toyota">>, <<"Honda">>, <<"Ford">>, <<"Chevrolet">>,
      <<"Volkswagen">>, <<"BMW">>, <<"Mercedes", "-", "Benz">>,
      <<"Audi">>, <<"Nissan">>, <<"Hyundai">>, <<"Kia">>,
      <<"Volvo">>, <<"Subaru">>, <<"Mazda">>, <<"Lexus">>,
      <<"Tesla">>, <<"Porsche">>, <<"Jeep">>, <<"Fiat">>,
      <<"Renault">>, <<"Peugeot">>, <<"Citroen">>, <<"Skoda">>,
      <<"Seat">>, <<"Opel">>>>

\* brands.some(validBrand => validBrand.toLowerCase() === brand.toLowerCase())
isValidBrand(brands, brand) ==
    \E i \in 1..Len(brands) : toLowerCase(brands[i]) = toLowerCase(brand)

\* validCarBrands.slice(0, 5).join(', ') inside the alert of a rejected brand
BrandHint(brands) ==
    <<"Please enter a valid car brand. Some valid brands include: ">>
        \o brands[1] \o <<", ">> \o brands[2] \o <<", ">> \o brands[3] \o <<", ">>
        \o brands[4] \o <<", ">> \o brands[5] \o <<"...">>

\* JSON.stringify(carData): the fields in insertion order, undefined ones
\* left out; a field that is neither a string, a finite number nor a boolean
\* is written null
JSONstringify(v) ==
    LET JsonScalar(x) ==
            CASE x.t = "str" -> <<"\"">> \o x.s \o <<"\"">>
              [] x.t = "num" -> IF x.n < 0 THEN <<"-", Digits(0 - x.n)>> ELSE <<Digits(x.n)>>
              [] x.t = "bool" -> JsString(x)
              [] OTHER -> <<"null">>
        RECURSIVE JsonFields(_, _)
        JsonFields(o, i) ==
            IF i > Len(o) THEN << >>
            ELSE (IF i > 1 THEN <<",">> ELSE << >>)
                 \o <<"\"", o[i].name, "\"", ":">> \o JsonScalar(o[i].value)
                 \o JsonFields(o, i + 1)
    IN <<"{">> \o JsonFields(SelectSeq(v.o, LAMBDA e : e.value.t # "undefined"), 1)
             \o <<"}">>

\* v || null
OrNull(s) == IF s # << >> THEN Str(s) ELSE Null

\* what a click or a handler call comes to before the first await: the
\* alerts shown, and the arguments of its call of api when it makes one
Refused(alerts) == [alerts |-> alerts, send |-> FALSE, url |-> << >>, params |-> << >>]
Submitted(url, params) == [alerts |-> << >>, send |-> TRUE, url |-> url, params |-> params]

\* a save handler of the create page that tests the fuel consumption of
\* electric cars as well
SaveOfCreateTestingEveryFuelUse(form) ==
    LET brand == trim(form.brand)
        fuelUse == parseFloat(form.fuelUse)
    IN IF brand = << >> THEN Refused(<< <<"Brand is a required field">> >>)
       ELSE IF ~isValidBrand(validCarBrands, brand)
       THEN Refused(<<BrandHint(validCarBrands)>>)
       ELSE IF form.model = << >> THEN Refused(<< <<"Model is a required field">> >>)
       ELSE IF form.fuelUse # << >> /\ (fuelUse.t = "nan" \/ fuelUse.n <= 0)
       THEN Refused(<< <<"Fuel consumption should be a number greater than 0">> >>)
       ELSE Submitted(<<"car">>, <<Pair("method", Str(<<"POST">>))>>)

\* btn-save onclick of the create page, up to its call of api
SaveOfCreate(form) ==
    LET brand == trim(form.brand)
        fuelUse == parseFloat(form.fuelUse)
        \* carData.fuelUse is set only for a car that is not electric and has
        \* a fuel consumption entered
        carData ==
            <<Pair("brand", Str(brand)), Pair("model", Str(form.model)),
              Pair("electric", Bool(form.electric)),
              Pair("owner", OrNull(form.owner)),
              Pair("dayOfCommission", OrNull(form.dayOfCommission))>>
                \o (IF ~form.electric /\ form.fuelUse # << >>
                    THEN <<Pair("fuelUse", fuelUse)>> ELSE << >>)
    IN IF brand = << >> THEN Refused(<< <<"Brand is a required field">> >>)
       ELSE IF ~isValidBrand(validCarBrands, brand)
       THEN Refused(<<BrandHint(validCarBrands)>>)
       ELSE IF form.model = << >> THEN Refused(<< <<"Model is a required field">> >>)
       ELSE IF /\ ~form.electric /\ form.fuelUse # << >>
               /\ (fuelUse.t = "nan" \/ fuelUse.n <= 0)
       THEN Refused(<< <<"Fuel consumption should be a number greater than 0">> >>)
       ELSE Submitted(<<"car">>,
                      <<Pair("method", Str(<<"POST">>)),
                        Pair("body", Str(JSONstringify(Obj(carData))))>>)

\* btn-save onclick of the edit page, up to its call of api
SaveOfEdit(form) ==
    LET \* the list of the edit page has one brand more
        validCarBrandsOfEdit == Append(validCarBrands, <<"Mitsubishi">>)
        parsed == parseBrandModel(form.carModel)
        numericFuelUse == parseFloat(form.fuelUse)
        checked == ~form.electric /\ form.fuelUse # << >>
        carData ==
            <<Pair("id", parseFloat(form.id)), Pair("brand", Str(parsed.brand)),
              Pair("model", Str(parsed.model)), Pair("electric", Bool(form.electric)),
              Pair("owner", OrNull(form.owner)),
              Pair("dayOfCommission", OrNull(form.commissionDate)),
              Pair("fuelUse", IF form.electric THEN Num(0)
                              ELSE IF checked THEN numericFuelUse ELSE Null)>>
    IN IF parsed.brand = << >> \/ parsed.model = << >>
       THEN Refused(<< <<"Both brand and model are required (format: Brand - Model)">> >>)
       ELSE IF ~isValidBrand(validCarBrandsOfEdit, parsed.brand)
       THEN Refused(<<BrandHint(validCarBrandsOfEdit), BrandHint(validCarBrandsOfEdit)>>)
       ELSE IF checked /\ numericFuelUse.t = "nan"
       THEN Refused(<< <<"Fuel consumption must be a number">> >>)
       ELSE IF checked /\ numericFuelUse.n <= 0
       THEN Refused(<< <<"Fuel consumption should be greater than 0">> >>)
       ELSE Submitted(<<"car">>,
                      <<Pair("method", Str(<<"PUT">>)),
                        Pair("body", Str(JSONstringify(Obj(carData))))>>)

\* what the rest of a handler does: alerts, a write to the output target,
\* a call of hydrate, a call of Router.navigate({page: "home"})
NoEffect == [alerts |-> << >>, write |-> Undefined, hydrated |-> FALSE, nav |-> FALSE]

HandlerOf(rm) ==
    [handler |-> IF rm.op = "list" THEN "listCars" ELSE "showCar",
     page |-> IF rm.op = "list" THEN HomePage ELSE CarPage,
     params |-> <<Pair("id", rm.id)>>]

\* the catch block of the operation
Caught(rm) ==
    CASE rm.op \in {"list", "detail"} ->
           [NoEffect EXCEPT !.write = Str(renderError(HandlerError(HandlerOf(rm))))]
      [] rm.op = "delete" ->
           [NoEffect EXCEPT !.alerts = << <<"Error deleting car:">> >>, !.nav = TRUE]
      [] OTHER ->
           [NoEffect EXCEPT !.alerts = << <<"Failed to connect to the server">> >>]

\* the code after `await response.json()', data being the parsed body
Parsed(rm, data) ==
    LET ok == rm.reply.ok
        status == rm.reply.status
        alert(message) == [NoEffect EXCEPT !.alerts = <<message>>]
        \* data.message || fallback
        MessageOr(d, fallback) ==
            IF Truthy(Prop(d, "message")) THEN JsString(Prop(d, "message")) ELSE fallback
    IN CASE rm.op \in {"list", "detail"} ->
              LET h == HandlerOf(rm)
                  out == inject(TemplateOf(h.page), HandlerParams(h.handler, data))
              IN IF out.thrown THEN Caught(rm)
                 ELSE [NoEffect EXCEPT !.write = Str(render(out.s)),
                                       !.hydrated = rm.op = "detail"]
         [] rm.op = "create" ->
              IF ok THEN alert(<<"Car added successfully with ID: ">>
                                   \o JsString(Prop(data, "id")))
              ELSE IF status = 400
              THEN alert(<<"Error: ">> \o JsString(Prop(data, "message")))
              ELSE IF status = 401
              THEN alert(<<"Authorization error: Please check your credentials">>)
              ELSE alert(<<"An unexpected error occurred">>)
         [] rm.op = "update" ->
              IF ok THEN alert(<<"Car details saved successfully!">>)
              ELSE IF status = 400
              THEN alert(<<"Validation error: ">> \o JsString(Prop(data, "message")))
              ELSE IF status = 401
              THEN alert(<<"Authorization error: Please check your credentials">>)
              ELSE IF status = 404
              THEN alert(<<"Error: Car not found. It may have been deleted.">>)
              ELSE alert(<<"An unexpected error occurred">>)
         [] OTHER ->
              LET shown ==
                      IF ok THEN << >>
                      ELSE IF status = 400
                      THEN <<<<"Error: ">> \o MessageOr(data, <<"Invalid data provided.">>)>>
                      ELSE IF status = 401
                      THEN <<<<"Error: ">>
                               \o MessageOr(data, <<"Invalid Neptun code. Access denied.">>)>>
                      ELSE IF status = 404
                      THEN <<<<"Error: ">> \o MessageOr(data, <<"Car not found.">>)>>
                      ELSE << <<"Failed to delete car. Please try again.">> >>
              IN [NoEffect EXCEPT !.alerts = shown, !.nav = TRUE]

\* the forms the user can have filled in
CreateForms ==
    LET CreateForm ==
            [brand |-> <<" ", "toyota">>, model |-> <<"Corolla">>, electric |-> FALSE,
             fuelUse |-> <<"6">>, dayOfCommission |-> <<"2020-01-01">>,
             owner |-> <<"Ann">>]
    IN
    {CreateForm,
     [CreateForm EXCEPT !.brand = <<"Tesla">>, !.electric = TRUE, !.fuelUse = <<"abc">>,
                        !.owner = << >>],
     [CreateForm EXCEPT !.brand = <<" ">>],
     [CreateForm EXCEPT !.brand = <<"Lada">>],
     [CreateForm EXCEPT !.model = << >>],
     [CreateForm EXCEPT !.fuelUse = << >>],
     [CreateForm EXCEPT !.fuelUse = <<"abc">>],
     [CreateForm EXCEPT !.fuelUse = <<"0">>],
     [CreateForm EXCEPT !.fuelUse = <<"-", "5">>],
     [CreateForm EXCEPT !.fuelUse = <<"6", "abc">>],
     [CreateForm EXCEPT !.brand = <<"TOYOTA", " ">>, !.owner = << >>]}

EditForms ==
    LET EditForm ==
            [id |-> <<"5">>, carModel |-> <<"Toyota", " ", "-", " ", "Corolla">>,
             electric |-> FALSE, fuelUse |-> <<"7">>, commissionDate |-> << >>,
             owner |-> <<"Ann">>]
    IN
    {EditForm,
     [EditForm EXCEPT !.carModel = <<"TOYOTA", "-", "C", "-", "HR">>, !.electric = TRUE],
     [EditForm EXCEPT !.carModel = <<"Toyota">>],
     [EditForm EXCEPT !.carModel = <<"Lada", " ", "-", " ", "Niva">>],
     [EditForm EXCEPT !.carModel = <<"Mercedes", "-", "Benz", " ", "-", " ", "C">>],
     [EditForm EXCEPT !.fuelUse = <<"abc">>],
     [EditForm EXCEPT !.fuelUse = <<"0">>]}

\* what a request to the API can end in: a rejection, or a response with its
\* status and what response.json() gives, which is a value or a rejection
\* when the body is not JSON
ApiReplies ==
    LET Unparsable == [t |-> "syntaxerror"]
        Reply(status, json) ==
            [kind |-> "response", ok |-> status \in 200..299, status |-> status,
             json |-> json]
    IN
    {Rejected,
     Reply(200, Obj(<<Pair("id", Num(5)), Pair("brand", Str(<<"Toyota">>))>>)),
     Reply(200, Arr(<<CarJson>>)),
     Reply(200, Unparsable),
     Reply(400, Obj(<<Pair("message", Str(<<"Brand is invalid">>))>>)),
     Reply(400, Obj(<< >>)),
     Reply(401, Obj(<<Pair("message", Str(<<"Unauthorized">>))>>)),
     Reply(404, Obj(<<Pair("message", Str(<<"Car not found">>))>>)),
     Reply(500, Unparsable)}

\* everything but the operation, the output target and what navigate changes
RouterAtRest ==
    UNCHANGED <<search, hist, hidx, patched, pageHandlers, pageCache, sessionStorage,
                usePersistentCache, registered, engine, res, nres, micro, faults, lastNav>>

\* a handler or a click starts operation op and runs up to its first await
Begin(op, id, sub) ==
    /\ remote.pc = "idle"
    /\ remote' = [NoRemote EXCEPT !.pc = IF sub.send THEN "awaitApi" ELSE "done",
                                  !.op = op, !.id = id, !.sent = sub.send,
                                  !.asked = sub.params,
                                  !.req = IF sub.send THEN api(sub.url, sub.params)
                                          ELSE NoRequest,
                                  !.alerts = sub.alerts]
    /\ root' = root
    /\ RouterAtRest

\* the rest of the operation runs to its end
End(rm, effect) ==
    /\ remote' = [rm EXCEPT !.pc = "done", !.alerts = @ \o effect.alerts,
                            !.wrote = effect.write, !.hydrated = effect.hydrated,
                            !.navigated = effect.nav]
    /\ root' = IF effect.write.t = "undefined" THEN root ELSE effect.write.s
    /\ IF effect.nav THEN NavigateCall(<<Pair("page", Str(HomePage))>>, FALSE)
       ELSE RouterAtRest

\* Router.onPage('home', async (html) => ...) is called with its template:
\* api("car")
HomeHandler == Begin("list", Undefined, Submitted(<<"car">>, << >>))

\* Router.onPage('car', async (html, {id}, hydrate) => ...) is called:
\* api(`car/${id}`)
CarHandler(id) == Begin("detail", id, Submitted(<<"car/">> \o JsString(id), << >>))

\* a click on btn-save of the create page
SaveCreate(form) == Begin("create", Undefined, SaveOfCreate(form))

\* a click on btn-save of the edit page
SaveEdit(form) == Begin("update", Str(form.id), SaveOfEdit(form))

\* a click on btn-delete of the edit page: api(`car/${id}`, {method: 'DELETE'})
DeleteClick(form) ==
    Begin("delete", Str(form.id),
          Submitted(<<"car/">> \o form.id, <<Pair("method", Str(<<"DELETE">>))>>))

\* the request of the operation ends in outcome o: a rejection goes to the
\* catch block, a response is read as JSON next
ApiReplied(o) ==
    /\ remote.pc = "awaitApi"
    /\ IF o.kind = "neterr"
       THEN End([remote EXCEPT !.reply = o], Caught(remote))
       ELSE /\ remote' = [remote EXCEPT !.pc = "awaitJson", !.reply = o]
            /\ root' = root
            /\ RouterAtRest

\* response.json() settles
JsonRead ==
    /\ remote.pc = "awaitJson"
    /\ End(remote, IF remote.reply.json.t = "syntaxerror" THEN Caught(remote)
                   ELSE Parsed(remote, remote.reply.json))

NextApi ==
    \/ HomeHandler
    \/ \E id \in {Str(<<"5">>), Undefined} : CarHandler(id)
    \/ \E form \in CreateForms : SaveCreate(form)
    \/ \E form \in EditForms : SaveEdit(form)
    \/ \E form \in EditForms : DeleteClick(form)
    \/ \E o \in ApiReplies : ApiReplied(o)
    \/ JsonRead

SpecApi == InitRouter /\ [][NextApi]_vars

(***************************************************************************)
(* Claims about the remote API operations                                  *)
(***************************************************************************)
OperationMethod(op) ==
    CASE op = "create" -> "POST" [] op = "update" -> "PUT" [] op = "delete" -> "DELETE"
      [] OTHER -> "GET"

\* C24: every request an operation sends has the method of the operation
\* (POST for create, PUT for update, DELETE for delete, GET for the list and
\* detail loads), create and update carry the JSON text of the car as body,
\* and delete goes to the resource of the car's identifier.
C24_RequestHasMethodOfOperation ==
    remote.sent =>
        /\ remote.req.method.t = "str"
        /\ remote.req.method.s = <<OperationMethod(remote.op)>>
        /\ remote.op \in {"create", "update"} =>
               /\ remote.req.body.t = "str"
               /\ remote.req.body.s = EntryValue(remote.asked, "body").s
        /\ remote.op = "delete" => remote.req.url = <<baseURL, "car/">> \o remote.id.s

Failed(rm) == rm.reply.kind = "neterr" \/ ~rm.reply.ok

\* C25: when an operation on the remote API has ended after a network
\* failure or a response with a non-success status, the user has been shown
\* an alert.
C25_FailureIsAlerted ==
    (remote.pc = "done" /\ remote.sent /\ Failed(remote)) => remote.alerts # << >>

(***************************************************************************)
(* Claims about retries                                                    *)
(***************************************************************************)
\* C26: a route-change resolution issues at most one template request and at
\* most one script request, whatever those requests end in.
C26_AtMostOneRequestEach ==
    \A r \in Res : res[r].tplReq <= 1 /\ res[r].jsReq <= 1

\* a resolution has finished after its one template request failed, and
\* another after its one script request failed
C26_FailedRequestsNotRepeated ==
    /\ \E r \in Res : /\ Finished(res[r]) /\ res[r].tplReq = 1
                      /\ res[r].tplOut \in {"neterr", "status"}
    /\ \E r \in Res : /\ Finished(res[r]) /\ res[r].jsReq = 1
                      /\ res[r].jsOut \in {"neterr", "status"}

(***************************************************************************)
(* The router under fair scheduling: every request a resolution has made   *)
(* is answered in the end, and the event loop runs the queued microtasks   *)
(***************************************************************************)
TemplateAnswered(r) == \E o \in TemplateOutcomes(res[r].page) : TemplateResponse(r, o)

ScriptAnswered(r) == \E o \in ScriptOutcomes(res[r].page) : ScriptResponse(r, o)

\* The third conjunct is weak fairness of Microtask, WF_vars(Microtask), with
\* the enabling condition written out: Microtask is enabled exactly when the
\* queue is not empty, and every step of it takes the head off the queue.
SpecLive ==
    /\ InitRouter
    /\ [][Next]_vars
    /\ ([]<>(micro = << >>) \/ []<><<Microtask>>_vars)
    /\ \A r \in Res : WF_vars(TemplateAnswered(r)) /\ WF_vars(ScriptAnswered(r))

\* a request of the resolution is pending
FetchPending(rec) == rec.pc \in {"awaitTpl", "awaitJs"}

\* handleRouteChange has resumed after its last await and waits for its
\* turn in the microtask queue
Resuming(r) == res[r].pc = "micro" /\ \E i \in 1..Len(micro) : micro[i] = r

\* C27: when every request is answered in the end, every resolution that has
\* started comes to call its handler or to write to the output target and
\* to finish; and until it has finished, one of its own requests is pending
\* (or its continuation is queued as a microtask).
C27_ResolutionCompletes ==
    /\ \A r \in Res : Started(r) ~> (Delivered(res[r]) /\ Finished(res[r]))
    /\ [](\A r \in Res : (Started(r) /\ ~Finished(res[r])) =>
                             (FetchPending(res[r]) \/ Resuming(r)))

\* every resolution has finished, after requests for both the template and
\* the script
C27_AllFinishedAfterFetches ==
    /\ \A r \in Res : Started(r) /\ Delivered(res[r]) /\ Finished(res[r])
    /\ \E r \in Res : res[r].tplReq = 1 /\ res[r].jsReq = 1

(***************************************************************************)
(* Claims about preserveParams                                             *)
(***************************************************************************)
\* the pairs of a query that are named key, in order
PairsOf(query, key) == SelectSeq(query, LAMBDA e : e.name = key)

\* C28: after navigate(params, {preserveParams: true}) every key the query
\* had and params does not name is still in the query, with the same values.
C28_PreserveKeepsOtherKeys ==
    (lastNav.called /\ lastNav.preserve) =>
        \A key \in Names(lastNav.from) \ ParamKeys(lastNav.params) :
            /\ SPHas(search, key)
            /\ PairsOf(search, key) = PairsOf(lastNav.from, key)

\* navigate({q: null, id: 7}, {preserveParams: true}) on a query with sort
\* and q has kept sort=asc, removed q and set id
C28_SortKeptWhileOthersChange ==
    /\ lastNav.called /\ lastNav.preserve
    /\ lastNav.params = <<Pair("q", Null), Pair("id", Num(7))>>
    /\ SPHas(lastNav.from, "q") /\ SPHas(lastNav.from, "sort")
    /\ SPHas(search, "sort") /\ SPGet(search, "sort") = <<"asc">>
    /\ ~SPHas(search, "q")
    /\ SPHas(search, "id") /\ SPGet(search, "id") = <<"7">>

(***************************************************************************)
(* The router with a handler that throws: the page registers, for either   *)
(* page, a callback that throws synchronously, or the handler of the car   *)
(* page; then the router runs as before                                    *)
(***************************************************************************)
SpecThrow ==
    /\ InitRouter
    /\ [][ \/ \E p \in PageNames : OnPage(p, ThrowingHandler)
           \/ OnPage(CarPage, "showCar")
           \/ RouterInit
           \/ \E c \in NavChoices : Navigate(c.params, c.preserve)
           \/ \E r \in Res : TemplateAnswered(r)
           \/ \E r \in Res : ScriptAnswered(r)
           \/ Microtask
           \/ \E r \in Res : \E o \in ApiOutcomes(res[r].handler) : ApiResponse(r, o) ]_vars

\* the calls of the handler a resolution has made
Calls(rec) == Events(rec, "call")

\* C29: a resolution whose page has a handler calls it at most once, and
\* exactly once by the time handleRouteChange has returned: with the template
\* or with the error message, never with both.
C29_HandlerCalledExactlyOnce ==
    \A r \in Res :
        res[r].handler # "none" =>
            /\ Len(Calls(res[r])) <= 1
            /\ Finished(res[r]) => Len(Calls(res[r])) = 1

(***************************************************************************)
(* The starts of resolutions: the page registers handlers, calls init()    *)
(* any number of times and navigates, and the user goes back and forward,  *)
(* while no request has been answered yet                                  *)
(***************************************************************************)
MaxStarts == 4

SpecStarts ==
    /\ InitSized(<< >>, FALSE, NoInject, MaxStarts)
    /\ [][ \/ \E p \in PageNames : OnPage(p, IF p = HomePage THEN "listCars" ELSE "showCar")
           \/ RouterInit
           \/ \E c \in NavChoices : Navigate(c.params, c.preserve)
           \/ \E i \in 1..MaxHist : Popstate(i) ]_vars

\* C30: once init() has been called, every call of navigate starts exactly
\* one resolution, and every popstate event starts exactly one.
C30_OneResolutionPerTrigger ==
    [][/\ (patched >= 1 /\ \E c \in NavChoices : Navigate(c.params, c.preserve))
           => nres' = nres + 1
       /\ (patched >= 1 /\ \E i \in 1..MaxHist : Popstate(i)) => nres' = nres + 1]_vars

(***************************************************************************)
(* The router while clearCache() is never called: a whole run lies between *)
(* two calls of clear                                                      *)
(***************************************************************************)
SpecNoClear ==
    /\ InitRouter
    /\ [][ \/ \E p \in PageNames : OnPage(p, IF p = HomePage THEN "listCars" ELSE "showCar")
           \/ RouterInit
           \/ \E c \in NavChoices : Navigate(c.params, c.preserve)
           \/ \E i \in 1..MaxHist : Popstate(i)
           \/ \E r \in Res : TemplateAnswered(r)
           \/ \E r \in Res : ScriptAnswered(r)
           \/ Microtask
           \/ \E r \in Res : \E o \in ApiOutcomes(res[r].handler) : ApiResponse(r, o) ]_vars

\* C31: while the cache is not cleared, the template of a page is requested
\* at most once: no two resolutions have both sent a request for the template
\* of the same page.
C31_TemplateRequestedOnce ==
    \A r1, r2 \in Res :
        (r1 # r2 /\ res[r1].tplReq > 0 /\ res[r2].tplReq > 0) => res[r1].page # res[r2].page

\* what a handler of page can be given as its first argument: a text that
\* pages/<page>.html was answered with, or the error message naming the page
TextsOf(page) ==
    {o.body : o \in {x \in TemplateOutcomes(page) : x.kind = "response"}}
        \cup {ErrorHtml(page)}

\* C32: whenever a resolution has called a handler, the handler is the one
\* registered under the page of the URL the resolution started on, the text
\* it was given is a text of that page (its template as the server answered
\* it, or its error message), and the parameter map is the query of that
\* URL, whatever the URL and the cache hold by then.
C32_ArgumentsOfOneSnapshot ==
    \A r \in Res :
        Calls(res[r]) # << >> =>
            /\ res[r].page = ResolvedPage(res[r].url)
            /\ res[r].handler = (IF res[r].page = HomePage THEN "listCars" ELSE "showCar")
            /\ res[r].params = GetParams(res[r].url)
            /\ \A i \in 1..Len(Calls(res[r])) : Calls(res[r])[i].text \in TextsOf(res[r].page)

\* init() on the bare URL asks for the template of the home page; before the
\* answer arrives navigate({page: "home"}) changes the URL and starts a
\* second resolution, which finds no cached template either; the first
\* resolution then calls the handler with the template and the empty
\* parameter map of the URL it started on.
C32_CalledAfterUrlChanged ==
    /\ faults = 0
    /\ nres = 2
    /\ res[1].url = << >> /\ search = <<Pair("page", HomePage)>>
    /\ res[1].tplReq = 1 /\ res[2].tplReq = 1
    /\ Len(Calls(res[1])) = 1
    /\ Calls(res[1])[1].text = TemplateOf(HomePage)
    /\ res[1].params = << >> /\ GetParams(search) # << >>
    /\ pageCache[<<"html", HomePage>>] = Str(TemplateOf(HomePage))

\* the values bound to v in the elements of an array of objects
ValuesOfV(arr) == [i \in 1..Len(arr) |-> Prop(arr[i], "v")]

\* C33: a value of the parameter object is literal text in the output. The
\* template [{{brand}}|{{ id }}] renders the brand and the id escaped and
\* otherwise as they are, and the iteration block with body [{{ v }}] over an
\* array of objects renders the escaped v of every element between brackets,
\* also when the value holds placeholder or conditional markers.
C33_ValuesStayLiteral ==
    LET brand == Prop(engine.params, "brand")
        id == Prop(engine.params, "id")
        items == Prop(engine.params, "items")
    IN /\ (/\ engine.called
           /\ engine.html = <<"[", "{{", "brand", "}}", "|", "{{", " ", "id", " ", "}}", "]">>
           /\ brand.t = "str" /\ id.t = "num")
              => engine.out = Returned(<<"[">> \o escapeHtml(brand) \o <<"|">>
                                           \o escapeHtml(id) \o <<"]">>)
       /\ (/\ engine.called /\ engine.html = EachItemsTemplate
           /\ items.t = "arr" /\ ObjectsOnly(items.a)
           /\ \A i \in 1..Len(items.a) : Prop(items.a[i], "v").t = "str")
              => engine.out = Returned(Bracketed(ValuesOfV(items.a), 1))

\* what the create form must hold for a request to be sent: a brand that is
\* not empty once trimmed and is, in some spelling of upper and lower case,
\* one of the accepted brands; a model that is not empty; and, when the car
\* is not electric and a fuel consumption is entered, one that parseFloat
\* reads as a number greater than 0
AcceptedByCreate(form) ==
    /\ trim(form.brand) # << >>
    /\ \E i \in 1..Len(validCarBrands) :
           toLowerCase(validCarBrands[i]) = toLowerCase(trim(form.brand))
    /\ form.model # << >>
    /\ (~form.electric /\ form.fuelUse # << >>)
           => (parseFloat(form.fuelUse).t = "num" /\ parseFloat(form.fuelUse).n > 0)

====
